---- MODULE Spec2Model ----
(***************************************************************************)
(* gerritssh: the versioned command/option framework                       *)
(* (gerritssh/internal/cmdoptions.py), the site commands built on it       *)
(* (query.py, bancommit.py, lsgroups.py, lsmembers.py, lsprojects.py) and  *)
(* the paginated query loop of Query.execute_on.                           *)
(*                                                                         *)
(* Text is modelled as a sequence of segments: a segment is a run of       *)
(* characters that no modelled operation looks inside; the characters the  *)
(* code does look at ("-", "_", " ", the double quote) are segments of     *)
(* their own.  'current-patchset' is <<"current", "-", "patchset">>.       *)
(***************************************************************************)
EXTENDS Integers, Sequences, FiniteSets, TLC

(***************************************************************************)
(* Bounds of the model.                                                    *)
(***************************************************************************)
\* largest max_results a caller asks for
MaxResults == 3
\* most lines (data records plus the trailing record) in one server page
MaxPageLen == 3
\* most non-empty pages the server holds for one query
MaxPages == 2
\* data pages served by the scripted server of test_query.py / spec section 8
StubPages == 5
\* most words in a caller's option string (option parser specification)
MaxArgs == 3
\* most assignments to and deletions of attributes of one ParsedOptions
MaxEdits == 1
\* most calls made on one Site in a row
MaxCalls == 3
\* most entries of a record's patchSets list
MaxPatchsets == 2
MaxThreads == 2
MaxThreadCalls == 2

(***************************************************************************)
(* Text helpers.                                                           *)
(***************************************************************************)
SP == " "
DASH == "-"
USCORE == "_"
QUOTE == "\""

Range(s) == {s[i] : i \in 1..Len(s)}

\* decimal rendering of the small naturals the model formats into commands
Str(n) == <<CASE n = 0 -> "0" [] n = 1 -> "1" [] n = 2 -> "2" [] n = 3 -> "3"
              [] n = 4 -> "4" [] n = 5 -> "5" [] n = 6 -> "6" [] n = 7 -> "7"
              [] n = 8 -> "8" [] OTHER -> "9">>

\* str.replace('-', '_')
Replace(s, from, to) == [i \in 1..Len(s) |-> IF s[i] = from THEN to ELSE s[i]]

RECURSIVE JoinFrom(_, _)
\* ' '.join(parts), from the i-th part on
JoinFrom(parts, i) ==
    IF i > Len(parts) THEN <<>>
    ELSE IF i = Len(parts) THEN parts[i]
    ELSE parts[i] \o <<SP>> \o JoinFrom(parts, i + 1)

\* ' '.join(parts); the list is evaluated once
Join(parts) == CHOOSE text \in {JoinFrom(p, 1) : p \in {parts}} : TRUE

RECURSIVE LStrip(_)
LStrip(s) == IF Len(s) > 0 /\ s[1] = SP THEN LStrip(Tail(s)) ELSE s

RECURSIVE RStrip(_)
RStrip(s) ==
    IF Len(s) > 0 /\ s[Len(s)] = SP THEN RStrip(SubSeq(s, 1, Len(s) - 1)) ELSE s

\* str.strip()
Strip(s) == RStrip(LStrip(s))

RECURSIVE ShlexFrom(_, _, _, _, _, _)
\* shlex.split(s): words separated by blanks, double quotes group a word and
\* are removed; an unclosed quote raises ValueError (ok = FALSE).
\* i: next segment, cur: word being read, started: a word is being read,
\* inq: inside quotes, out: words read so far.
ShlexFrom(s, i, cur, started, inq, out) ==
    IF i > Len(s)
    THEN IF inq THEN [ok |-> FALSE, toks |-> <<>>]
         ELSE [ok |-> TRUE, toks |-> IF started THEN Append(out, cur) ELSE out]
    ELSE IF s[i] = QUOTE
         THEN ShlexFrom(s, i + 1, cur, TRUE, ~inq, out)
    ELSE IF s[i] = SP /\ ~inq
         THEN IF started
              THEN ShlexFrom(s, i + 1, <<>>, FALSE, FALSE, Append(out, cur))
              ELSE ShlexFrom(s, i + 1, <<>>, FALSE, FALSE, out)
    ELSE ShlexFrom(s, i + 1, Append(cur, s[i]), TRUE, inq, out)

ShlexSplit(s) == ShlexFrom(s, 1, <<>>, FALSE, FALSE, <<>>)

\* the words of a command line as the receiving side splits it (no quoting
\* is ever produced by the code, so this is a split at blanks)
Words(s) == ShlexSplit(s).toks

(***************************************************************************)
(* Semantic versions and requirement specifications (semantic_version).    *)
(* A specification is a sequence of comparator terms; None (no spec) is    *)
(* the empty sequence.                                                     *)
(***************************************************************************)
VLess(a, b) ==
    \/ a[1] < b[1]
    \/ a[1] = b[1] /\ a[2] < b[2]
    \/ a[1] = b[1] /\ a[2] = b[2] /\ a[3] < b[3]

TermMatch(v, t) ==
    CASE t.op = ">=" -> ~VLess(v, t.v)
      [] t.op = "<"  -> VLess(v, t.v)
      [] t.op = "<=" -> ~VLess(t.v, v)
      [] t.op = ">"  -> VLess(t.v, v)
      [] OTHER       -> v = t.v

\* a range any one of whose terms is enough
SpecMatchAny(v, spec) ==
    Len(spec) = 0 \/ \E i \in 1..Len(spec) : TermMatch(v, spec[i])

\* version in SV.Spec(spec): every comparator term holds
SpecMatch(v, spec) == \A i \in 1..Len(spec) : TermMatch(v, spec[i])

NoSpec == <<>>
\* a range string SV.Spec cannot parse
BadSpec == <<[op |-> "?", v |-> <<0, 0, 0>>]>>

\* SV.Spec(spec) raises ValueError
IllFormed(spec) ==
    \E i \in 1..Len(spec) : spec[i].op \notin {">=", "<", "<=", ">", "=="}

GE(major, minor) == <<[op |-> ">=", v |-> <<major, minor, 0>>]>>
LT(major, minor) == <<[op |-> "<", v |-> <<major, minor, 0>>]>>

(***************************************************************************)
(* Option values.  argparse stores None, a bool (store_true), an int       *)
(* (count), a str (store) or a list of str (append) under each dest.       *)
(***************************************************************************)
VNone == [k |-> "none"]
VBool(b) == [k |-> "bool", b |-> b]
VInt(n) == [k |-> "int", n |-> n]
VStr(s) == [k |-> "str", s |-> s]
VList(l) == [k |-> "list", l |-> l]

\* Python truth value of an option value
Truthy(v) ==
    CASE v.k = "none" -> FALSE
      [] v.k = "bool" -> v.b
      [] v.k = "int"  -> v.n # 0
      [] v.k = "str"  -> Len(v.s) > 0
      [] OTHER        -> Len(v.l) > 0

(***************************************************************************)
(* Option, OptionSet (cmdoptions.py).  An OptionSet is the tuple of its    *)
(* OptionRepr records, in declaration order.                               *)
(***************************************************************************)
\* Option.__check_args: key is the long name with '-' replaced by '_', args
\* is ('--long', '-short') or ('--long',), the action depends on repeatable
CheckArgs(opt_type, long, short, repeatable, spec, repeat_action, default_action, has_choices, choices) ==
    [type        |-> opt_type,
     key         |-> Replace(long, DASH, USCORE),
     args        |-> IF Len(short) > 0
                     THEN << <<DASH, DASH>> \o long, <<DASH>> \o short >>
                     ELSE << <<DASH, DASH>> \o long >>,
     action      |-> IF repeatable THEN repeat_action ELSE default_action,
     has_choices |-> has_choices,
     choices     |-> choices,
     spec        |-> spec]

Flag(long, short, repeatable, spec) ==
    CheckArgs("flag", long, short, repeatable, spec, "count", "store_true",
              FALSE, {})

Choice(long, short, choices, repeatable, spec) ==
    CheckArgs("choice", long, short, repeatable, spec, "append", "store",
              TRUE, choices)

Valued(long, short, repeatable, spec) ==
    CheckArgs("valued", long, short, repeatable, spec, "append", "store",
              FALSE, {})

NoShort == <<>>

\* Query.__options
QueryOptions ==
    << Choice(<<"format">>, NoShort, {<<"json">>, <<"text">>}, FALSE, NoSpec),
       Flag(<<"current", DASH, "patchset">>, NoShort, FALSE, NoSpec),
       Flag(<<"patch", DASH, "sets">>, NoShort, FALSE, NoSpec),
       Flag(<<"all", DASH, "approvals">>, NoShort, FALSE, NoSpec),
       Flag(<<"files">>, NoShort, FALSE, NoSpec),
       Flag(<<"comments">>, NoShort, FALSE, NoSpec),
       Flag(<<"dependencies">>, NoShort, FALSE, NoSpec),
       Flag(<<"submit", DASH, "records">>, NoShort, FALSE, GE(2, 5)),
       Flag(<<"commit", DASH, "message">>, NoShort, FALSE, GE(2, 5)),
       Flag(<<"all", DASH, "reviewers">>, NoShort, FALSE, GE(2, 9)) >>

\* BanCommit.__options
BanCommitOptions ==
    << Valued(<<"reason">>, NoShort, FALSE, GE(2, 5)) >>

\* ListGroups.__options
ListGroupsOptions ==
    << Valued(<<"project">>, <<"p">>, FALSE, NoSpec),
       Valued(<<"user">>, <<"u">>, FALSE, NoSpec),
       Flag(<<"visible", DASH, "to", DASH, "all">>, NoShort, FALSE, NoSpec),
       Choice(<<"type">>, NoShort, {<<"internal">>, <<"system">>}, FALSE,
              NoSpec),
       Flag(<<"verbose">>, <<"v">>, FALSE, GE(2, 5)),
       Flag(<<"owned">>, NoShort, FALSE, GE(2, 6)),
       Valued(<<"q">>, <<"q">>, TRUE, GE(2, 6)) >>

\* ListMembers.__options
ListMembersOptions ==
    << Flag(<<"recursive">>, NoShort, FALSE, GE(2, 8)) >>

\* ProjectList.__options
ProjectListOptions ==
    << Valued(<<"show", DASH, "branch">>, <<"b">>, TRUE, NoSpec),
       Flag(<<"description">>, <<"d">>, FALSE, GE(2, 5)),
       Flag(<<"tree">>, <<"t">>, FALSE, NoSpec),
       Choice(<<"type">>, NoShort,
              {<<"code">>, <<"permissions">>, <<"all">>}, FALSE, NoSpec),
       Flag(<<"all">>, NoShort, FALSE, GE(2, 5)),
       Valued(<<"limit">>, NoShort, FALSE, GE(2, 5)),
       Valued(<<"has", DASH, "acl", DASH, "for">>, NoShort, FALSE, GE(2, 6)),
       Choice(<<"format">>, NoShort,
              {<<"text">>, <<"json">>, <<"json_compact">>}, FALSE,
              GE(2, 5)) >>

(***************************************************************************)
(* CmdOptionParser / ParsedOptions (cmdoptions.py).                        *)
(***************************************************************************)
Keys(catalog) == {catalog[i].key : i \in 1..Len(catalog)}

\* the namespace argparse starts from: False for store_true, None otherwise
Defaults(catalog) ==
    [key \in Keys(catalog) |->
        LET o == catalog[CHOOSE i \in 1..Len(catalog) : catalog[i].key = key]
        IN  IF o.action = "store_true" THEN VBool(FALSE) ELSE VNone]

\* the options one of whose flag strings is exactly tok
Matching(catalog, tok) ==
    {i \in 1..Len(catalog) : tok \in Range(catalog[i].args)}

\* str.startswith on segments
IsPrefix(p, s) == Len(p) <= Len(s) /\ SubSeq(s, 1, Len(p)) = p

\* argparse._get_option_tuples: the options a word starting with '--'
\* abbreviates (one of their flag strings starts with the word)
Abbreviated(catalog, tok) ==
    IF Len(tok) > 2 /\ tok[1] = DASH /\ tok[2] = DASH
    THEN {i \in 1..Len(catalog) :
             \E j \in 1..Len(catalog[i].args) : IsPrefix(tok, catalog[i].args[j])}
    ELSE {}

\* only a word that is a flag string selects an option
CandidatesExact(catalog, tok) == Matching(catalog, tok)

\* the options a word selects: an exact flag string first, else the options
\* it abbreviates
Candidates(catalog, tok) ==
    IF Matching(catalog, tok) # {} THEN Matching(catalog, tok)
    ELSE Abbreviated(catalog, tok)

\* argparse._parse_optional: does the word read as an option rather than as
\* an argument?  (The model's words hold no '=' and no negative number.)
OptionLike(catalog, tok) ==
    /\ Len(tok) > 0
    /\ tok[1] = DASH
    /\ \/ Matching(catalog, tok) # {}
       \/ Len(tok) > 1 /\ SP \notin Range(tok)

RECURSIVE ParseFrom(_, _, _, _)
\* ArgumentParser.parse_args over the words toks from position i on; ok =
\* FALSE is argparse's error exit (SystemExit)
ParseFrom(catalog, toks, i, ns) ==
    IF i > Len(toks) THEN [ok |-> TRUE, ns |-> ns]
    ELSE IF ~OptionLike(catalog, toks[i])
         THEN [ok |-> FALSE, ns |-> ns]          \* unrecognized arguments
    ELSE IF Candidates(catalog, toks[i]) = {}
         THEN [ok |-> FALSE, ns |-> ns]          \* unrecognized option
    ELSE IF Matching(catalog, toks[i]) = {}
            /\ Cardinality(Abbreviated(catalog, toks[i])) > 1
         THEN [ok |-> FALSE, ns |-> ns]          \* ambiguous option
    ELSE LET o == catalog[CHOOSE j \in Candidates(catalog, toks[i]) :
                            \A j2 \in Candidates(catalog, toks[i]) : j <= j2]
             old == ns[o.key]
         IN  IF o.action = "store_true"
             THEN ParseFrom(catalog, toks, i + 1,
                            [ns EXCEPT ![o.key] = VBool(TRUE)])
             ELSE IF o.action = "count"
             THEN ParseFrom(catalog, toks, i + 1,
                            [ns EXCEPT ![o.key] =
                                IF old.k = "int" THEN VInt(old.n + 1)
                                                 ELSE VInt(1)])
             ELSE IF i + 1 > Len(toks) \/ OptionLike(catalog, toks[i + 1])
             THEN [ok |-> FALSE, ns |-> ns]      \* expected one argument
             ELSE IF o.has_choices /\ toks[i + 1] \notin o.choices
             THEN [ok |-> FALSE, ns |-> ns]      \* invalid choice
             ELSE IF o.action = "store"
             THEN ParseFrom(catalog, toks, i + 2,
                            [ns EXCEPT ![o.key] = VStr(toks[i + 1])])
             ELSE ParseFrom(catalog, toks, i + 2,
                            [ns EXCEPT ![o.key] =
                                IF old.k = "list"
                                THEN VList(Append(old.l, toks[i + 1]))
                                ELSE VList(<<toks[i + 1]>>)])

\* CmdOptionParser.parse / ParsedOptions.__init__: shlex.split, then
\* parse_args; sel is the instance __dict__ without _option_set, exc the
\* exception that leaves the constructor when ok is FALSE
Parse(catalog, opt_str) ==
    LET sh == ShlexSplit(opt_str)
    IN  IF ~sh.ok
        THEN [ok |-> FALSE, sel |-> Defaults(catalog), exc |-> "ValueError"]
        ELSE LET r == ParseFrom(catalog, sh.toks, 1, Defaults(catalog))
             IN  [ok |-> r.ok, sel |-> r.ns,
                  exc |-> IF r.ok THEN "none" ELSE "SystemExit"]

\* attribute assignment on a ParsedOptions: opts.key = value
SetAttr(sel, key, value) ==
    [k \in DOMAIN sel \cup {key} |-> IF k = key THEN value ELSE sel[k]]

\* results.get(opt.key) in ParsedOptions.__str__
Get(sel, key) == IF key \in DOMAIN sel THEN sel[key] ELSE VNone

RECURSIVE StrsFrom(_, _, _)
\* the list strs built by ParsedOptions.__str__ from catalog entry i on
StrsFrom(sel, catalog, i) ==
    IF i > Len(catalog) THEN <<>>
    ELSE LET opt == catalog[i]
             value == Get(sel, opt.key)
             mine ==
                 IF ~Truthy(value) THEN <<>>
                 ELSE IF opt.type = "flag" THEN <<opt.args[1]>>
                 ELSE IF value.k = "list"
                 THEN [n \in 1..(2 * Len(value.l)) |->
                          IF n % 2 = 1 THEN opt.args[1]
                                       ELSE value.l[n \div 2]]
                 ELSE <<opt.args[1], value.s>>
         IN  mine \o StrsFrom(sel, catalog, i + 1)

\* __str__ walking the option set from its last entry to its first
OptStrReversed(sel, catalog) ==
    Join(StrsFrom(sel, [i \in 1..Len(catalog) |->
                           catalog[Len(catalog) + 1 - i]], 1))

\* ParsedOptions.__str__
OptStr(sel, catalog) == Join(StrsFrom(sel, catalog, 1))

RECURSIVE SupportedFrom(_, _, _, _)
\* the loop of ParsedOptions.supported_in from catalog entry i on; "KeyError"
\* when a ranged option's key is no attribute of the instance
SupportedFrom(sel, catalog, version, i) ==
    IF i > Len(catalog) THEN "True"
    ELSE LET opt == catalog[i]
         IN  IF Len(opt.spec) = 0
             THEN SupportedFrom(sel, catalog, version, i + 1)
             ELSE IF opt.key \notin DOMAIN sel THEN "KeyError"
             ELSE IF ~Truthy(sel[opt.key])
             THEN SupportedFrom(sel, catalog, version, i + 1)
             ELSE IF IllFormed(opt.spec) THEN "ValueError"
             ELSE IF ~SpecMatch(version, opt.spec) THEN "False"
             ELSE SupportedFrom(sel, catalog, version, i + 1)

\* supported_in testing every ranged option, set or not
SupportedInAnyValue(sel, catalog, version) ==
    IF \E i \in 1..Len(catalog) :
           Len(catalog[i].spec) > 0 /\ ~SpecMatch(version, catalog[i].spec)
    THEN "False"
    ELSE "True"

\* ParsedOptions.supported_in
SupportedIn(sel, catalog, version) == SupportedFrom(sel, catalog, version, 1)

\* OptionSet.options_supported_in: the options without range or with a range
\* the version is in, in declaration order; SV.Spec raises on an ill-formed
\* range
OptionsSupportedIn(catalog, version) ==
    IF \E i \in 1..Len(catalog) : IllFormed(catalog[i].spec)
    THEN [exc |-> "ValueError", options |-> <<>>]
    ELSE [exc |-> "none",
          options |-> SelectSeq(catalog, LAMBDA o :
                          Len(o.spec) = 0 \/ SpecMatch(version, o.spec))]

(***************************************************************************)
(* The commands: their version ranges and the option strings and           *)
(* positional arguments callers construct them with.                       *)
(***************************************************************************)
Commands == {"Query", "BanCommit", "ListGroups", "ListMembers", "ProjectList"}

\* the class attribute __options of each command
Options(c) ==
    CASE c = "Query"       -> QueryOptions
      [] c = "BanCommit"   -> BanCommitOptions
      [] c = "ListGroups"  -> ListGroupsOptions
      [] c = "ListMembers" -> ListMembersOptions
      [] OTHER             -> ProjectListOptions

\* the class attribute __supported_versions of each command
SupportedVersions(c) ==
    CASE c = "BanCommit"   -> GE(2, 5)
      [] c = "ListMembers" -> GE(2, 8)
      [] OTHER             -> GE(2, 4)

Long(name) == <<DASH, DASH>> \o name

\* version of the site a command is executed on
Versions == {<<2, 0, 0>>, <<2, 4, 7>>, <<2, 5, 0>>, <<2, 7, 0>>, <<2, 9, 0>>}

\* option strings callers pass to the constructors
OptStrs(c) ==
    CASE c = "Query" ->
           { <<>>,
             Long(<<"files">>),
             Long(<<"all", DASH, "reviewers">>),
             Long(<<"submit", DASH, "records">>),
             Long(<<"commit", DASH, "message">>),
             Long(<<"format">>) \o <<SP, "text">> }
      [] c = "BanCommit" ->
           { <<>>, Long(<<"reason">>) \o <<SP, "Why">> }
      [] c = "ListGroups" ->
           { <<>>,
             Long(<<"visible", DASH, "to", DASH, "all">>),
             Long(<<"owned">>),
             <<DASH, "v">>,
             Long(<<"q">>) \o <<SP, "a", SP, DASH, "q", SP, "b">> }
      [] c = "ListMembers" ->
           { <<>>, Long(<<"recursive">>) }
      [] OTHER ->
           { <<>>,
             Long(<<"all">>),
             Long(<<"format">>) \o <<SP, "json">>,
             Long(<<"limit">>) \o <<SP, "5">>,
             Long(<<"limit">>) \o <<SP, QUOTE, QUOTE>>,
             <<DASH, "b", SP, "master">> }

\* positional arguments: (project, commit) of BanCommit, (group) of
\* ListMembers; both constructors reject an empty one
PosArgs(c) ==
    CASE c = "BanCommit"   -> { << <<"theproject">>, <<"thecommit">> >> }
      [] c = "ListMembers" -> { << <<"somegroup">> >> }
      [] OTHER             -> { <<>> }

\* the query expressions of query.py (_reviews_by_status)
Queries == { <<"status:open">> }

(***************************************************************************)
(* The server's replies.  A page of the query command is a sequence of     *)
(* lines; a line decodes to a review record (with or without a sortKey),   *)
(* to the statistics record, or is not JSON.                               *)
(***************************************************************************)
RecLine(key) == [kind |-> "review", has_key |-> TRUE, sortKey |-> key]
NoKeyLine == [kind |-> "review", has_key |-> FALSE, sortKey |-> <<>>]
StatsLine == [kind |-> "stats", has_key |-> FALSE, sortKey |-> <<>>]
GarbageLine == [kind |-> "garbage", has_key |-> FALSE, sortKey |-> <<>>]

SortKeys == { <<"k1">>, <<"k2">> }

\* a review record whose sort key is the empty string
EmptyKeyLine == RecLine(<<>>)

Lines == {RecLine(k) : k \in SortKeys} \cup {NoKeyLine, StatsLine, GarbageLine}

\* every page of at most MaxPageLen lines
AllPages == UNION {[1..n -> Lines] : n \in 0..MaxPageLen}

\* pages whose last data record has the empty sort key
EmptyKeyPages ==
    { << EmptyKeyLine, StatsLine >>,
      << RecLine(<<"k1">>), EmptyKeyLine, StatsLine >> }

\* the pages of a server that sends well-formed lines only
LeanLines == {RecLine(<<"k1">>), StatsLine}
LeanPages == UNION {[1..n -> LeanLines] : n \in 0..MaxPageLen}

\* the pages that end a result set: no line, or the statistics record alone
EndPages == { <<>>, <<StatsLine>> }

\* the scripted server: one data record plus the statistics record for
\* StubPages pages, then the statistics record alone
StubPage(n) ==
    IF n <= StubPages THEN << RecLine(<<"s">> \o Str(n)), StatsLine >>
                      ELSE << StatsLine >>

\* replies to the one-shot commands: lines of text
TAB == "\t"
HeaderLine == <<"id", TAB, "username", TAB, "full name", TAB, "email">>
MemberLine == <<"100", TAB, "jim", TAB, "Jim Bob", TAB, "jim@example.com">>
Replies ==
    { <<>>,
      << <<"a">> >>,
      << <<"a">>, <<>>, <<"b">> >>,
      << HeaderLine >>,
      << HeaderLine, MemberLine >> }

(***************************************************************************)
(* State.                                                                  *)
(***************************************************************************)
VARIABLES
    cmd,          \* class of the command object
    option_str,   \* option string given to the constructor
    posargs,      \* positional arguments given to the constructor
    query,        \* Query.__query
    max_results,  \* Query.__max_results
    opts,         \* the command's ParsedOptions (its attributes)
    results,      \* SiteCommand._results
    site_version, \* Site.version
    connected,    \* Site.connected
    server,       \* "stub": the scripted server, "free": any server
    sent,         \* the command lines passed to the_site.execute by the call
    served_data,  \* every line but the last of each page decoded so far
    odd_last,     \* some page so far ended in a review instead of statistics
    last_len,     \* number of lines of the page received last
    last_page,    \* the page received last
    pc,           \* "idle", "paging" (inside Query's loop), "done", "raised"
    raised,       \* class of the exception execute_on raised
    message,      \* what the exception says is unsupported
    result,       \* local result of Query.execute_on
    resume_key,   \* local resume_key of Query.execute_on
    remaining,    \* local remaining of Query.execute_on
    arg,          \* the cmd argument of a call of Site.execute
    last_call,    \* the Site method called last, "none" before any call
    returned,     \* what that call returned, "none" when it raised
    calls,        \* calls made on the Site so far
    review_raw,   \* the decoded record given to Review()
    the_review,   \* the Review built from it, or the exception raised
    first,        \* how the first of two calls of execute_on ended
    shared_options, \* OptionSet.options of the option set two parses share
    tpc,          \* where each thread is in GerritSSHClient.execute or
                  \* disconnect, "idle" between calls
    lock,         \* the thread that holds GerritSSHClient.lock, 0 when free
    established,  \* the runs of _do_connect that returned
    tcalls,       \* the calls each thread has made on the client
    option_set,   \* the OptionSet a CmdOptionParser was built with
    opt_str,      \* the string handed to CmdOptionParser.parse
    parsed,       \* attributes of the ParsedOptions parse returned
    forced,       \* a command has assigned its required options to parsed
    rendered,     \* str(parsed)
    reparsed,     \* attributes of the ParsedOptions parsed from rendered
    ppc,          \* "new", "parsed", "exit", "rendered", "reparsed",
                  \* "rejected" (parse exits on rendered)
    parse_exc,    \* the exception that left the last call of parse
    parser_results, \* CmdOptionParser.results: "None", or the object it
                  \* refers to ("parsed", "reparsed")
    edits,        \* assignments and deletions made on parsed so far
    is_supported, \* what parsed.supported_in(version) gave, "unset" before
    subset        \* what option_set.options_supported_in(version) gave

rangeVars == <<is_supported, subset>>
parserVars == <<option_set, opt_str, parsed, forced, rendered, reparsed, ppc,
                parse_exc, parser_results, edits, rangeVars>>
siteVars == <<last_call, returned, calls>>
reviewVars == <<review_raw, the_review>>
threadVars == <<tpc, lock, established, tcalls>>
moreVars == <<first, shared_options, threadVars>>
extVars == <<siteVars, reviewVars, moreVars>>
objVars == <<cmd, option_str, posargs, query, max_results, site_version,
             connected, server, arg, extVars, parserVars>>
ghostVars == <<served_data, odd_last>>
localVars == <<result, resume_key, remaining>>
coreVars == <<cmd, option_str, posargs, query, max_results, opts, results,
              site_version, connected, server, sent, served_data, odd_last,
              last_len, last_page, pc, raised, message, result, resume_key,
              remaining, arg>>
cmdVars == <<coreVars, extVars>>
vars == <<cmdVars, parserVars>>

\* the state after a command object is constructed from (posargs, s)
Constructed(c, s, pa) ==
    /\ cmd = c
    /\ option_str = s
    /\ posargs = pa
    /\ Parse(Options(c), s).ok
    /\ opts = Parse(Options(c), s).sel
    /\ results = <<>>
    /\ sent = <<>>
    /\ served_data = <<>>
    /\ odd_last = FALSE
    /\ last_len = 0
    /\ last_page = <<>>
    /\ pc = "idle"
    /\ raised = "none"
    /\ message = "none"
    /\ result = <<>>
    /\ resume_key = <<>>
    /\ remaining = 0

\* any command on any site, answered by the scripted server
InitCompat ==
    /\ \E c \in Commands : \E s \in OptStrs(c) : \E pa \in PosArgs(c) :
           Constructed(c, s, pa)
    /\ site_version \in Versions
    /\ connected \in BOOLEAN
    /\ server = "stub"
    /\ IF cmd = "Query"
       THEN query \in Queries /\ max_results \in 0..MaxResults
       ELSE query = <<>> /\ max_results = 0

\* a Query on a supporting site, answered by any server
InitPaging ==
    /\ \E pa \in PosArgs("Query") : Constructed("Query", <<>>, pa)
    /\ site_version = <<2, 9, 0>>
    /\ connected = TRUE
    /\ server = "free"
    /\ query \in Queries
    /\ max_results \in 0..MaxResults

\* no stand-alone parser is in use
NoParser ==
    /\ option_set = "none"
    /\ opt_str = <<>>
    /\ parsed = <<>>
    /\ forced = FALSE
    /\ rendered = <<>>
    /\ reparsed = <<>>
    /\ ppc = "none"
    /\ parse_exc = "none"
    /\ parser_results = "None"
    /\ edits = 0
    /\ is_supported = "unset"
    /\ subset = [exc |-> "unset", options |-> <<>>]

\* execute_on is called on the command itself, not through Site.execute
NoExecuteCall == arg = VNone

\* no method of the Site itself is called
NoSiteCalls == last_call = "none" /\ returned = "none" /\ calls = 0

\* no Review is built on its own
NoReview == review_raw = <<>> /\ the_review = <<>>

\* execute_on is called once at most
NoSecondCall == first = <<>>

\* no option set is looked at as an object of its own
NoCatalog == shared_options = <<>>

\* no thread calls the SSH client
NoThreads == tpc = <<>> /\ lock = 0 /\ established = 0 /\ tcalls = <<>>

\* nothing else is in use
NoMore == NoSecondCall /\ NoCatalog /\ NoThreads

\* nothing but the command or the parser is in use
Quiet == NoSiteCalls /\ NoReview /\ NoMore

Init == (InitCompat \/ InitPaging) /\ NoParser /\ NoExecuteCall /\ Quiet

(***************************************************************************)
(* The support check every execute_on starts with.                         *)
(***************************************************************************)
\* version_in accepting every version
VersionInAlways(constraint) ==
    IF ~connected THEN "SSHConnectionError" ELSE "True"

\* Site.version_in: needs a connection, then version in SV.Spec(constraint)
VersionIn(constraint) ==
    IF ~connected THEN "SSHConnectionError"
    ELSE IF SpecMatch(site_version, constraint) THEN "True" ELSE "False"

\* the support check with the options tested before the command
SupportOptionsFirst(supported, catalog, sel) ==
    LET v == VersionIn(supported)
        o == SupportedIn(sel, catalog, site_version)
    IN  IF v = "SSHConnectionError" THEN "SSHConnectionError"
        ELSE IF o \in {"KeyError", "ValueError"} THEN o
        ELSE IF o = "False" THEN "option"
        ELSE IF v = "False" THEN "command"
        ELSE "ok"

\* SiteCommand.check_support_for, and its copies at the head of the
\* execute_on of Query, BanCommit, ListGroups and ListMembers: the command's
\* range first, then the parsed options
Support(supported, catalog, sel) ==
    LET v == VersionIn(supported)
    IN  IF v = "SSHConnectionError" THEN "SSHConnectionError"
        ELSE IF v = "False" THEN "command"
        ELSE LET o == SupportedIn(sel, catalog, site_version)
             IN  IF o \in {"KeyError", "ValueError"} THEN o
                 ELSE IF o = "False" THEN "option"
                 ELSE "ok"

Raise(exc, msg) ==
    /\ pc' = "raised"
    /\ raised' = exc
    /\ message' = msg

\* the exception a failed support check leaves execute_on with
RaiseUnsupported(s) ==
    CASE s = "SSHConnectionError" ->
           Raise("SSHConnectionError", "Site is not connected")
      [] s = "command" ->
           Raise("NotImplementedError", "this command")
      [] s = "option" ->
           Raise("NotImplementedError", "one or more options provided")
      [] OTHER ->
           Raise(s, "none")

(***************************************************************************)
(* Query.execute_on.                                                       *)
(***************************************************************************)
\* the options execute_on sets on the parsed options before the first page
Forced(sel) ==
    LET s1 == SetAttr(sel, <<"current", USCORE, "patch", USCORE, "set">>,
                      VBool(TRUE))
        s2 == SetAttr(s1, <<"patch", USCORE, "sets">>, VBool(TRUE))
        s3 == SetAttr(s2, <<"all", USCORE, "approvals">>, VBool(TRUE))
        s4 == SetAttr(s3, <<"dependencies">>, VBool(TRUE))
        s5 == SetAttr(s4, <<"commit", USCORE, "message">>, VBool(TRUE))
    IN  SetAttr(s5, <<"format">>, VStr(<<"JSON">>))

\* the command line with the whole maximum as its limit on every page
PageCommandFullBudget(sel, key, rem) ==
    LET resume == IF Len(key) > 0 THEN <<"resume_sortkey:">> \o key ELSE <<>>
        standard_flags == Join(<<OptStr(sel, QueryOptions), resume>>)
        limit == IF max_results # 0 THEN <<"limit:">> \o Str(max_results)
                 ELSE <<>>
    IN  Join(<< <<"query">>, limit, query, standard_flags >>)

\* the command line partial_query sends
PageCommand(sel, key, rem) ==
    LET resume == IF Len(key) > 0 THEN <<"resume_sortkey:">> \o key ELSE <<>>
        standard_flags == Join(<<OptStr(sel, QueryOptions), resume>>)
        limit == IF max_results # 0 THEN <<"limit:">> \o Str(rem) ELSE <<>>
    IN  Join(<< <<"query">>, limit, query, standard_flags >>)

\* PageReviews keeping the last line
PageReviewsKeepLast(lines) == IF Len(lines) > 1 THEN lines ELSE <<>>

\* the lines partial_query turns into Review objects: all but the last
\* when there is more than one, none otherwise
PageReviews(lines) ==
    IF Len(lines) > 1 THEN SubSeq(lines, 1, Len(lines) - 1) ELSE <<>>

\* LoopCond without the unlimited case
LoopCondNoUnlimited(res) == Len(res) < max_results

\* LoopCond asking for one page more once the maximum is reached
LoopCondInclusive(res) == max_results = 0 \/ Len(res) <= max_results

\* the condition of the while loop
LoopCond(res) == max_results = 0 \/ Len(res) < max_results

\* Truncate without the cut at max_results
TruncateNever(res) == res

\* the value assigned to self._results after the loop
Truncate(res) ==
    IF max_results # 0 /\ Len(res) > max_results
    THEN SubSeq(res, 1, max_results)
    ELSE res

\* leaving the loop: _results is set and returned
Finish(res) ==
    /\ results' = Truncate(res)
    /\ pc' = "done"
    /\ UNCHANGED <<raised, message>>

\* execute_on up to the loop: support check, forced options, locals
QueryExecuteOn ==
    /\ pc = "idle"
    /\ cmd = "Query"
    /\ LET s == Support(SupportedVersions("Query"), QueryOptions, opts)
       IN  IF s # "ok"
           THEN /\ RaiseUnsupported(s)
                /\ UNCHANGED <<opts, results, localVars>>
           ELSE /\ opts' = Forced(opts)
                /\ result' = <<>>
                /\ resume_key' = <<>>
                /\ remaining' = max_results
                /\ IF LoopCond(<<>>)
                   THEN /\ pc' = "paging"
                        /\ UNCHANGED <<results, raised, message>>
                   ELSE Finish(<<>>)
    /\ UNCHANGED <<objVars, sent, ghostVars, last_len, last_page>>

\* the pages the server may answer the next request with
ServerPages ==
    IF server = "stub" THEN {StubPage(Len(sent) + 1)}
    ELSE IF server = "lean"
    THEN (IF Len(sent) < MaxPages THEN LeanPages ELSE EndPages)
    ELSE IF Len(sent) < MaxPages THEN AllPages \cup EmptyKeyPages
    ELSE EndPages

\* every line of a page except its last
AllButLast(page) ==
    [i \in 1..(IF Len(page) = 0 THEN 0 ELSE Len(page) - 1) |-> page[i]]

\* DecodeError never missing a sort key
DecodeErrorIgnoringKey(page) ==
    IF \E i \in 1..Len(page) : page[i].kind = "garbage" THEN "ValueError"
    ELSE IF \E i \in 1..Len(PageReviews(page)) :
                PageReviews(page)[i].kind # "review"
    THEN "AttributeError"
    ELSE "none"

\* the exception one turn of the loop ends with, "none" when it has none:
\* json.loads fails in text_to_json on a line that is no JSON, Review(l)
\* fails on a record that is no review, partial[-1].raw['sortKey'] fails
\* when the last review has no sort key
DecodeError(page) ==
    IF \E i \in 1..Len(page) : page[i].kind = "garbage" THEN "ValueError"
    ELSE LET partial == PageReviews(page)
         IN  IF \E i \in 1..Len(partial) : partial[i].kind # "review"
             THEN "AttributeError"
             ELSE IF Len(partial) > 0 /\ ~partial[Len(partial)].has_key
             THEN "KeyError"
             ELSE "none"

\* one turn of the loop: partial_query, then the loop body, then either the
\* next turn or the end of execute_on.  An exception discards the locals.
QueryPage ==
    /\ pc = "paging"
    /\ sent' = Append(sent, PageCommand(opts, resume_key, remaining))
    /\ \E page \in ServerPages :
         /\ last_len' = Len(page)
         /\ last_page' = page
         /\ IF DecodeError(page) # "none"
            THEN /\ Raise(DecodeError(page), "none")
                 /\ UNCHANGED <<results, localVars, ghostVars>>
            ELSE LET partial == PageReviews(page)
                 IN  IF Len(partial) = 0
                     THEN \* if not partial: break
                          /\ Finish(result)
                          /\ served_data' = served_data \o AllButLast(page)
                          /\ odd_last' = (odd_last \/ (Len(page) > 0 /\
                                            page[Len(page)].kind = "review"))
                          /\ UNCHANGED localVars
                     ELSE /\ result' = result \o partial
                          /\ resume_key' = partial[Len(partial)].sortKey
                          /\ remaining' = remaining - Len(partial)
                          /\ served_data' = served_data \o AllButLast(page)
                          /\ odd_last' = (odd_last \/
                                            page[Len(page)].kind = "review")
                          /\ IF LoopCond(result \o partial)
                             THEN /\ pc' = "paging"
                                  /\ UNCHANGED <<results, raised, message>>
                             ELSE Finish(result \o partial)
    /\ UNCHANGED <<objVars, opts>>

\* a failed request that stores what the loop has collected so far
QueryTransportFailureKeepsPartial ==
    /\ pc = "paging"
    /\ sent' = Append(sent, PageCommand(opts, resume_key, remaining))
    /\ Raise("SSHException", "none")
    /\ results' = result
    /\ UNCHANGED <<objVars, opts, localVars, ghostVars, last_len, last_page>>

\* the_site.execute raises inside partial_query
QueryTransportFailure ==
    /\ pc = "paging"
    /\ sent' = Append(sent, PageCommand(opts, resume_key, remaining))
    /\ Raise("SSHException", "none")
    /\ UNCHANGED <<objVars, opts, results, localVars, ghostVars, last_len,
                   last_page>>

(***************************************************************************)
(* The one-shot commands.                                                  *)
(***************************************************************************)
\* [l for l in raw if l]
NonEmpty(raw) == SelectSeq(raw, LAMBDA l : Len(l) > 0)

RECURSIVE SplitFrom(_, _, _, _, _)
SplitFrom(s, sep, i, cur, out) ==
    IF i > Len(s) THEN Append(out, cur)
    ELSE IF s[i] = sep THEN SplitFrom(s, sep, i + 1, <<>>, Append(out, cur))
    ELSE SplitFrom(s, sep, i + 1, Append(cur, s[i]), out)

\* str.split(sep)
Split(s, sep) == SplitFrom(s, sep, 1, <<>>, <<>>)

FieldNames == <<"id", "username", "fullname", "email">>

\* dict(zip(field_names, member.split('\t')))
MemberDict(member) ==
    LET fields == Split(member, TAB)
        n == IF Len(fields) < Len(FieldNames) THEN Len(fields)
             ELSE Len(FieldNames)
    IN  [name \in {FieldNames[i] : i \in 1..n} |->
            fields[CHOOSE i \in 1..n : FieldNames[i] = name]]

\* raw[0].startswith('id\t')
StartsWithId(line) == Len(line) >= 2 /\ line[1] = "id" /\ line[2] = TAB

\* BanCommit.execute_on
BanCommitExecuteOn ==
    /\ pc = "idle"
    /\ cmd = "BanCommit"
    /\ LET s == Support(SupportedVersions("BanCommit"), BanCommitOptions, opts)
       IN  IF s # "ok"
           THEN RaiseUnsupported(s) /\ UNCHANGED <<results, sent>>
           ELSE /\ sent' = Append(sent,
                       Strip(Join(<< <<"ban", DASH, "commit">>,
                                     OptStr(opts, BanCommitOptions),
                                     posargs[1], posargs[2] >>)))
                /\ \/ Raise("SSHException", "none") /\ UNCHANGED results
                   \/ /\ results' = <<>>
                      /\ pc' = "done"
                      /\ UNCHANGED <<raised, message>>
    /\ UNCHANGED <<objVars, opts, localVars, ghostVars, last_len, last_page>>

\* ListGroups.execute_on
ListGroupsExecuteOn ==
    /\ pc = "idle"
    /\ cmd = "ListGroups"
    /\ LET s == Support(SupportedVersions("ListGroups"), ListGroupsOptions,
                        opts)
       IN  IF s # "ok"
           THEN RaiseUnsupported(s) /\ UNCHANGED <<results, sent>>
           ELSE /\ sent' = Append(sent,
                       Strip(Join(<< <<"ls", DASH, "groups">>,
                                     OptStr(opts, ListGroupsOptions) >>)))
                /\ \/ Raise("SSHException", "none") /\ UNCHANGED results
                   \/ \E raw \in Replies :
                          /\ results' = NonEmpty(raw)
                          /\ pc' = "done"
                          /\ UNCHANGED <<raised, message>>
    /\ UNCHANGED <<objVars, opts, localVars, ghostVars, last_len, last_page>>

\* ListMembers.execute_on
ListMembersExecuteOn ==
    /\ pc = "idle"
    /\ cmd = "ListMembers"
    /\ LET s == Support(SupportedVersions("ListMembers"), ListMembersOptions,
                        opts)
       IN  IF s # "ok"
           THEN RaiseUnsupported(s) /\ UNCHANGED <<results, sent>>
           ELSE /\ sent' = Append(sent,
                       Strip(Join(<< <<"ls", DASH, "members">>,
                                     OptStr(opts, ListMembersOptions),
                                     posargs[1] >>)))
                /\ \/ Raise("SSHException", "none") /\ UNCHANGED results
                   \/ \E raw \in Replies :
                          IF Len(raw) = 0 \/ ~StartsWithId(raw[1])
                          THEN /\ Raise("InvalidGroupError", "none")
                               /\ UNCHANGED results
                          ELSE /\ results' = [i \in 1..(Len(raw) - 1) |->
                                                 MemberDict(raw[i + 1])]
                               /\ pc' = "done"
                               /\ UNCHANGED <<raised, message>>
    /\ UNCHANGED <<objVars, opts, localVars, ghostVars, last_len, last_page>>

\* ProjectList.execute_on (lsprojects.py), through check_support_for
ProjectListExecuteOn ==
    /\ pc = "idle"
    /\ cmd = "ProjectList"
    /\ LET s == Support(SupportedVersions("ProjectList"), ProjectListOptions,
                        opts)
       IN  IF s # "ok"
           THEN RaiseUnsupported(s) /\ UNCHANGED <<results, sent>>
           ELSE /\ sent' = Append(sent,
                       Strip(Join(<< <<"ls", DASH, "projects">>,
                                     OptStr(opts, ProjectListOptions) >>)))
                /\ \/ Raise("SSHException", "none") /\ UNCHANGED results
                   \/ \E raw \in Replies :
                          /\ results' = NonEmpty(raw)
                          /\ pc' = "done"
                          /\ UNCHANGED <<raised, message>>
    /\ UNCHANGED <<objVars, opts, localVars, ghostVars, last_len, last_page>>

Next ==
    \/ QueryExecuteOn
    \/ QueryPage
    \/ QueryTransportFailure
    \/ BanCommitExecuteOn
    \/ ListGroupsExecuteOn
    \/ ListMembersExecuteOn
    \/ ProjectListExecuteOn

Spec == Init /\ [][Next]_vars

(***************************************************************************)
(* The option parser on its own: a CmdOptionParser built with an           *)
(* OptionSet parses a string, a command may assign its required options,   *)
(* the ParsedOptions is rendered with str(), and the rendering is parsed   *)
(* again.                                                                  *)
(***************************************************************************)
\* the option_set fixture of test_options.py
FixtureOptions ==
    << Flag(<<"flag">>, <<"f">>, FALSE, GE(2, 0)),
       Valued(<<"valued">>, <<"v">>, FALSE, GE(1, 0) \o LT(3, 0)),
       Choice(<<"pick">>, <<"p">>, {<<"a">>, <<"b">>}, FALSE, NoSpec),
       Choice(<<"repeatable">>, <<"r">>, {<<"a">>, <<"b">>, <<"c">>}, TRUE,
              NoSpec) >>

\* the repeatable flag of test_option_flag
CountedOptions ==
    << Flag(<<"long", DASH, "name">>, <<"short", DASH, "name">>, TRUE,
            NoSpec) >>

\* two options whose long names give the same key a_b
DuplicateOptions ==
    << Flag(<<"a", DASH, "b">>, NoShort, FALSE, NoSpec),
       Flag(<<"a", USCORE, "b">>, NoShort, FALSE, NoSpec) >>

\* an option without range and one whose range string is ill-formed
IllFormedOptions ==
    << Flag(<<"plain">>, NoShort, FALSE, NoSpec),
       Flag(<<"draft">>, NoShort, FALSE, BadSpec) >>

OptionSets ==
    Commands \cup {"fixture", "counted", "duplicate", "illformed"}

OptionSetOf(name) ==
    CASE name = "fixture" -> FixtureOptions
      [] name = "counted" -> CountedOptions
      [] name = "duplicate" -> DuplicateOptions
      [] name = "illformed" -> IllFormedOptions
      [] OTHER            -> Options(name)

\* the words option strings are made of
ArgWords(name) ==
    CASE name = "Query" ->
           { Long(<<"format">>), <<"json">>, Long(<<"files">>),
             Long(<<"patch">>), Long(<<"all">>) }
      [] name = "BanCommit" ->
           { Long(<<"reason">>), <<"Why">>, <<QUOTE, "Why", SP, "not", QUOTE>>,
             <<QUOTE>> }
      [] name = "ListGroups" ->
           { <<DASH, "q">>, <<"a">>, <<QUOTE, "b", SP, "c", QUOTE>>,
             <<DASH, "v">>, Long(<<"type">>), <<"internal">> }
      [] name = "ListMembers" ->
           { Long(<<"recursive">>), Long(<<"badoption">>) }
      [] name = "ProjectList" ->
           { <<DASH, "b">>, <<"master">>, Long(<<"limit">>), <<QUOTE, QUOTE>>,
             Long(<<"all">>) }
      [] name = "fixture" ->
           { <<DASH, "f">>, Long(<<"pick">>), <<"a">>, <<DASH, "r">>, <<"c">>,
             Long(<<"bad">>) }
      [] name = "duplicate" ->
           { Long(<<"a", DASH, "b">>), Long(<<"a", USCORE, "b">>) }
      [] name = "illformed" ->
           { Long(<<"plain">>), Long(<<"draft">>) }
      [] OTHER ->
           { Long(<<"long", DASH, "name">>), <<DASH, "short", DASH, "name">> }

\* the option strings of at most MaxArgs words
OptionStrings(name) ==
    {Join(ws) : ws \in UNION {[1..n -> ArgWords(name)] : n \in 0..MaxArgs}}

\* no command object is in use
NoCommand ==
    /\ cmd = "none"
    /\ option_str = <<>>
    /\ posargs = <<>>
    /\ query = <<>>
    /\ max_results = 0
    /\ opts = <<>>
    /\ results = <<>>
    /\ connected = FALSE
    /\ server = "none"
    /\ sent = <<>>
    /\ served_data = <<>>
    /\ odd_last = FALSE
    /\ last_len = 0
    /\ last_page = <<>>
    /\ pc = "none"
    /\ raised = "none"
    /\ message = "none"
    /\ result = <<>>
    /\ resume_key = <<>>
    /\ remaining = 0
    /\ arg = VNone

\* a parser built with one of the option sets, and a string to parse
InitOpts ==
    /\ NoCommand
    /\ Quiet
    /\ site_version = <<0, 0, 0>>
    /\ option_set \in OptionSets
    /\ opt_str \in OptionStrings(option_set)
    /\ parsed = <<>>
    /\ forced = FALSE
    /\ rendered = <<>>
    /\ reparsed = <<>>
    /\ ppc = "new"
    /\ parse_exc = "none"
    /\ parser_results = "None"
    /\ edits = 0
    /\ is_supported = "unset"
    /\ subset = [exc |-> "unset", options |-> <<>>]

\* CmdOptionParser.parse(opt_str)
ParseOptStr ==
    /\ ppc = "new"
    /\ LET r == Parse(OptionSetOf(option_set), opt_str)
       IN  /\ parse_exc' = r.exc
           /\ IF r.ok
              THEN parsed' = r.sel /\ ppc' = "parsed"
                   /\ parser_results' = "parsed"
              ELSE parsed' = parsed /\ ppc' = "exit"
                   /\ parser_results' = parser_results
    /\ UNCHANGED <<cmdVars, rangeVars, option_set, opt_str,
                   forced, rendered, reparsed,
                   edits>>

\* Query.execute_on assigning the options it requires
ForceRequired ==
    /\ ppc = "parsed"
    /\ option_set = "Query"
    /\ ~forced
    /\ parsed' = Forced(parsed)
    /\ forced' = TRUE
    /\ UNCHANGED <<cmdVars, rangeVars, option_set, opt_str, rendered, reparsed,
                   ppc, parse_exc, parser_results, edits>>

\* an attribute name that is no key of any option set
ForeignKey == <<"nokey">>

\* the attributes a caller edits: the first option of the catalog and one
\* the catalog does not declare
EditKeys(catalog) == {catalog[1].key, ForeignKey}

\* the values a caller assigns to an attribute
EditValues == { VStr(<<>>), VStr(<<"x">>) }

\* opts.key = value, on a key of the option set or on any other name
SetOption ==
    /\ ppc = "parsed"
    /\ edits < MaxEdits
    /\ \E key \in EditKeys(OptionSetOf(option_set)) :
       \E value \in EditValues :
           parsed' = SetAttr(parsed, key, value)
    /\ edits' = edits + 1
    /\ UNCHANGED <<cmdVars, rangeVars, option_set, opt_str,
                   forced, rendered, reparsed,
                   ppc, parse_exc, parser_results>>

\* del opts.key, on an attribute the instance has
DelOption ==
    /\ ppc = "parsed"
    /\ edits < MaxEdits
    /\ \E key \in EditKeys(OptionSetOf(option_set)) \cap DOMAIN parsed :
           parsed' = [k \in DOMAIN parsed \ {key} |-> parsed[k]]
    /\ edits' = edits + 1
    /\ UNCHANGED <<cmdVars, rangeVars, option_set, opt_str,
                   forced, rendered, reparsed,
                   ppc, parse_exc, parser_results>>

\* str(parsed)
StrOfParsed ==
    /\ ppc = "parsed"
    /\ rendered' = OptStr(parsed, OptionSetOf(option_set))
    /\ ppc' = "rendered"
    /\ UNCHANGED <<cmdVars, rangeVars, option_set, opt_str,
                   parsed, forced, reparsed,
                   parse_exc, parser_results, edits>>

\* CmdOptionParser.parse(str(parsed))
ParseRendered ==
    /\ ppc = "rendered"
    /\ LET r == Parse(OptionSetOf(option_set), rendered)
       IN  /\ parse_exc' = r.exc
           /\ IF r.ok
              THEN reparsed' = r.sel /\ ppc' = "reparsed"
                   /\ parser_results' = "reparsed"
              ELSE reparsed' = reparsed /\ ppc' = "rejected"
                   /\ parser_results' = parser_results
    /\ UNCHANGED <<cmdVars, rangeVars, option_set, opt_str,
                   parsed, forced, rendered,
                   edits>>

NextOpts ==
    \/ ParseOptStr
    \/ ForceRequired
    \/ SetOption
    \/ DelOption
    \/ StrOfParsed
    \/ ParseRendered

SpecOpts == InitOpts /\ [][NextOpts]_vars

(***************************************************************************)
(* Support evaluation on its own: an option set, an option string parsed   *)
(* with it, and a version both are asked about.                            *)
(***************************************************************************)
\* the versions support is asked for, test_option_subset's 4.0.0 included
RangeVersions ==
    Versions \cup {<<1, 0, 0>>, <<2, 6, 0>>, <<3, 0, 0>>, <<4, 0, 0>>}

InitRange ==
    /\ NoCommand
    /\ Quiet
    /\ site_version \in RangeVersions
    /\ option_set \in OptionSets
    /\ opt_str \in OptionStrings(option_set)
    /\ parsed = <<>>
    /\ forced = FALSE
    /\ rendered = <<>>
    /\ reparsed = <<>>
    /\ ppc = "new"
    /\ parse_exc = "none"
    /\ parser_results = "None"
    /\ edits = 0
    /\ is_supported = "unset"
    /\ subset = [exc |-> "unset", options |-> <<>>]

\* parsed.supported_in(version)
SupportedInCall ==
    /\ ppc = "parsed"
    /\ is_supported = "unset"
    /\ is_supported' =
           SupportedIn(parsed, OptionSetOf(option_set), site_version)
    /\ UNCHANGED <<cmdVars, subset, option_set, opt_str, parsed, forced,
                   rendered, reparsed, ppc, parse_exc, parser_results, edits>>

\* option_set.options_supported_in(version)
OptionsSupportedInCall ==
    /\ subset.exc = "unset"
    /\ subset' = OptionsSupportedIn(OptionSetOf(option_set), site_version)
    /\ UNCHANGED <<cmdVars, is_supported, option_set, opt_str, parsed,
                   forced, rendered, reparsed, ppc, parse_exc,
                   parser_results, edits>>

NextRange == ParseOptStr \/ SupportedInCall \/ OptionsSupportedInCall

SpecRange == InitRange /\ [][NextRange]_vars

(***************************************************************************)
(* Construction of the command objects: a caller names a class and gives   *)
(* it an option string and positional arguments; __init__ runs.            *)
(***************************************************************************)
\* the arguments SiteCommand.__init__ requires besides self
SiteCommandInitArgs == 3

\* the arguments each class passes to super().__init__
SuperInitArgs(c) == IF c = "ProjectList" THEN 3 ELSE 0

\* the call of super().__init__ binds its arguments
SuperInitBinds(c) == SuperInitArgs(c) = SiteCommandInitArgs

\* option strings given to a constructor, one with an undeclared flag
NewOptStrs(c) == OptStrs(c) \cup {Long(<<"bad">>)}

\* positional arguments given to a constructor, empty ones included
NewArgs(c) ==
    CASE c = "BanCommit" ->
           {<<project, commit>> : project \in {<<>>, <<"theproject">>},
                                  commit \in {<<>>, <<"thecommit">>}}
      [] c = "ListMembers" -> { << <<>> >>, << <<"somegroup">> >> }
      [] OTHER -> { <<>> }

InitNew ==
    /\ NoParser
    /\ Quiet
    /\ NoExecuteCall
    /\ cmd \in Commands
    /\ option_str \in NewOptStrs(cmd)
    /\ posargs \in NewArgs(cmd)
    /\ IF cmd = "Query"
       THEN query \in Queries /\ max_results \in 0..MaxResults
       ELSE query = <<>> /\ max_results = 0
    /\ site_version \in Versions
    /\ connected \in BOOLEAN
    /\ server = "stub"
    /\ opts = <<>>
    /\ results = <<>>
    /\ sent = <<>>
    /\ served_data = <<>>
    /\ odd_last = FALSE
    /\ last_len = 0
    /\ last_page = <<>>
    /\ pc = "new"
    /\ raised = "none"
    /\ message = "none"
    /\ result = <<>>
    /\ resume_key = <<>>
    /\ remaining = 0

\* self.__parser.parse(option_str) as the last statement of a constructor
ParseInInit ==
    LET r == Parse(Options(cmd), option_str)
    IN  IF r.ok
        THEN /\ opts' = r.sel
             /\ pc' = "idle"
             /\ UNCHANGED <<raised, message>>
        ELSE /\ Raise(r.exc, "none")
             /\ UNCHANGED opts

\* Query.__init__
QueryInit ==
    /\ pc = "new"
    /\ cmd = "Query"
    /\ IF ~SuperInitBinds(cmd)
       THEN Raise("TypeError", "none") /\ UNCHANGED opts
       ELSE ParseInInit
    /\ UNCHANGED <<objVars, results, sent, ghostVars, last_len, last_page,
                   localVars>>

\* BanCommit.__init__: the parse comes before the test of project and commit
BanCommitInit ==
    /\ pc = "new"
    /\ cmd = "BanCommit"
    /\ IF ~SuperInitBinds(cmd)
       THEN Raise("TypeError", "none") /\ UNCHANGED opts
       ELSE IF ~Parse(Options(cmd), option_str).ok
       THEN ParseInInit
       ELSE IF posargs[1] = <<>> \/ posargs[2] = <<>>
       THEN /\ Raise("ValueError",
                     "Project and Commit are required by the command")
            /\ opts' = Parse(Options(cmd), option_str).sel
       ELSE ParseInInit
    /\ UNCHANGED <<objVars, results, sent, ghostVars, last_len, last_page,
                   localVars>>

\* ListGroups.__init__
ListGroupsInit ==
    /\ pc = "new"
    /\ cmd = "ListGroups"
    /\ IF ~SuperInitBinds(cmd)
       THEN Raise("TypeError", "none") /\ UNCHANGED opts
       ELSE ParseInInit
    /\ UNCHANGED <<objVars, results, sent, ghostVars, last_len, last_page,
                   localVars>>

\* ListMembers.__init__: the group is tested before the parse
ListMembersInit ==
    /\ pc = "new"
    /\ cmd = "ListMembers"
    /\ IF ~SuperInitBinds(cmd)
       THEN Raise("TypeError", "none") /\ UNCHANGED opts
       ELSE IF posargs[1] = <<>>
       THEN /\ Raise("ValueError",
                     "Caller must provide a non-null group name")
            /\ UNCHANGED opts
       ELSE ParseInInit
    /\ UNCHANGED <<objVars, results, sent, ghostVars, last_len, last_page,
                   localVars>>

\* ProjectList.__init__: SiteCommand.__init__ builds the parser and parses
ProjectListInit ==
    /\ pc = "new"
    /\ cmd = "ProjectList"
    /\ IF ~SuperInitBinds(cmd)
       THEN Raise("TypeError", "none") /\ UNCHANGED opts
       ELSE ParseInInit
    /\ UNCHANGED <<objVars, results, sent, ghostVars, last_len, last_page,
                   localVars>>

NextNew ==
    \/ QueryInit
    \/ BanCommitInit
    \/ ListGroupsInit
    \/ ListMembersInit
    \/ ProjectListInit

SpecNew == InitNew /\ [][NextNew]_vars

(***************************************************************************)
(* Site.execute (gerritsite.py): a caller hands the site a SiteCommand, a  *)
(* string or anything else.  A SiteCommand is executed by double dispatch, *)
(* so its execute_on runs next.                                            *)
(***************************************************************************)
ACommand == [k |-> "SiteCommand"]

\* the values callers pass as cmd: None, '', a command line, 0, 1, [], a
\* SiteCommand
ExecuteArgs ==
    { VNone, VStr(<<>>), VStr(<<"gerrit", SP, "version">>), VInt(0), VInt(1),
      VList(<<>>), ACommand }

InitSite ==
    /\ NoParser
    /\ Quiet
    /\ arg \in ExecuteArgs
    /\ site_version \in Versions
    /\ connected \in BOOLEAN
    /\ server = "stub"
    /\ IF arg = ACommand
       THEN /\ cmd \in Commands
            /\ option_str \in OptStrs(cmd)
            /\ posargs \in PosArgs(cmd)
            /\ Parse(Options(cmd), option_str).ok
            /\ opts = Parse(Options(cmd), option_str).sel
            /\ IF cmd = "Query"
               THEN query \in Queries /\ max_results \in 0..MaxResults
               ELSE query = <<>> /\ max_results = 0
       ELSE /\ cmd = "none"
            /\ option_str = <<>>
            /\ posargs = <<>>
            /\ opts = <<>>
            /\ query = <<>>
            /\ max_results = 0
    /\ results = <<>>
    /\ sent = <<>>
    /\ served_data = <<>>
    /\ odd_last = FALSE
    /\ last_len = 0
    /\ last_page = <<>>
    /\ pc = "call"
    /\ raised = "none"
    /\ message = "none"
    /\ result = <<>>
    /\ resume_key = <<>>
    /\ remaining = 0

\* __do_command: the line goes over SSH, and either the transport fails or
\* the lines of its output are returned
DoCommand(command) ==
    /\ sent' = Append(sent, command)
    /\ \/ Raise("SSHException", "none")
       \/ pc' = "done" /\ UNCHANGED <<raised, message>>

\* execute testing its argument before the connection
SiteExecuteArgumentFirst ==
    /\ pc = "call"
    /\ IF arg # ACommand /\ arg.k # "str" /\ Truthy(arg)
       THEN /\ Raise("InvalidCommandError", "Expected an instance")
            /\ UNCHANGED sent
       ELSE IF arg # ACommand /\ ~Truthy(arg)
       THEN Raise("InvalidCommandError", "No command found") /\ UNCHANGED sent
       ELSE IF ~connected
       THEN Raise("SSHConnectionError", "No connection") /\ UNCHANGED sent
       ELSE IF arg = ACommand
       THEN pc' = "idle" /\ UNCHANGED <<raised, message, sent>>
       ELSE DoCommand(arg.s)
    /\ UNCHANGED <<objVars, opts, results, localVars, ghostVars, last_len,
                   last_page>>

\* Site.execute
SiteExecute ==
    /\ pc = "call"
    /\ IF ~connected
       THEN Raise("SSHConnectionError", "No connection") /\ UNCHANGED sent
       ELSE IF arg = ACommand
       THEN \* return cmd.execute_on(self)
            pc' = "idle" /\ UNCHANGED <<raised, message, sent>>
       ELSE IF Truthy(arg) /\ arg.k # "str"
       THEN /\ Raise("InvalidCommandError", "Expected an instance")
            /\ UNCHANGED sent
       ELSE IF ~Truthy(arg)
       THEN Raise("InvalidCommandError", "No command found") /\ UNCHANGED sent
       ELSE DoCommand(arg.s)
    /\ UNCHANGED <<objVars, opts, results, localVars, ghostVars, last_len,
                   last_page>>

NextSite == SiteExecute \/ Next

SpecSite == InitSite /\ [][NextSite]_vars

(***************************************************************************)
(* The life of a Site over the real GerritSSHClient (gerritsite.py,        *)
(* borrowed/ssh.py): a caller connects, executes command lines and         *)
(* disconnects, in any order.  The SSH layer may fail to connect, may fail *)
(* to run a command, and answers 'version' with any text.                  *)
(***************************************************************************)
VersionLine(v) == [text |-> "gerrit version", v |-> v]
OtherLine == [text |-> "other", v |-> <<0, 0, 0>>]

\* what the server prints for 'gerrit version': nothing, a line of another
\* kind, or its version
VersionReplies ==
    { <<>>, <<OtherLine>> } \cup {<<VersionLine(v)>> : v \in Versions}

\* Site.__extract_version: the digits after 'gerrit version ', or 0.0.0
ExtractVersion(line) ==
    IF line.text = "gerrit version" THEN line.v ELSE <<0, 0, 0>>

InitLife ==
    /\ NoCommand
    /\ NoParser
    /\ site_version = <<0, 0, 0>>
    /\ NoSiteCalls
    /\ NoReview
    /\ NoMore

\* a call on the Site ends with exception exc
Fails(exc) == raised' = exc /\ returned' = "none"

\* a call on the Site returns value
Returns(value) == raised' = "none" /\ returned' = value

\* Site.connect: nothing when connected; else __do_command('version'),
\* whose GerritSSHClient.execute connects first (_do_connect) and then runs
\* the command (exec_command); SSHException from either becomes
\* SSHConnectionError; resp[0] is read from the output
SiteConnect ==
    /\ calls < MaxCalls
    /\ calls' = calls + 1
    /\ last_call' = "connect"
    /\ IF connected
       THEN \* if self.connected: return
            /\ Returns("None")
            /\ UNCHANGED <<connected, site_version, sent>>
       ELSE \/ \* _do_connect raises SSHException
               /\ Fails("SSHConnectionError")
               /\ UNCHANGED <<connected, site_version, sent>>
            \/ \* exec_command raises SSHException
               /\ connected' = TRUE
               /\ sent' = Append(sent, <<"version">>)
               /\ Fails("SSHConnectionError")
               /\ UNCHANGED site_version
            \/ \E resp \in VersionReplies :
                   /\ connected' = TRUE
                   /\ sent' = Append(sent, <<"version">>)
                   /\ IF Len(resp) = 0
                      THEN Fails("IndexError") /\ UNCHANGED site_version
                      ELSE /\ site_version' = ExtractVersion(resp[1])
                           /\ Returns("self")
    /\ UNCHANGED <<cmd, option_str, posargs, query, max_results, opts,
                   results, server, ghostVars, last_len, last_page, pc,
                   message, localVars, arg, reviewVars, moreVars, parserVars>>

\* Site.disconnect: GerritSSHClient.disconnect takes the lock and evaluates
\* self.connected(), a call of the bool the property gives: TypeError,
\* connected or not; close() and the clearing of the flag are not reached,
\* the finally clause releases the lock
SiteDisconnect ==
    /\ calls < MaxCalls
    /\ calls' = calls + 1
    /\ last_call' = "disconnect"
    /\ Fails("TypeError")
    /\ UNCHANGED <<cmd, option_str, posargs, query, max_results, opts,
                   results, site_version, connected, server, sent,
                   ghostVars, last_len, last_page, pc, message, localVars,
                   arg, reviewVars, moreVars, parserVars>>

\* Site.execute on a command line
SiteExecuteLine ==
    /\ calls < MaxCalls
    /\ calls' = calls + 1
    /\ last_call' = "execute"
    /\ IF ~connected
       THEN Fails("SSHConnectionError") /\ UNCHANGED sent
       ELSE /\ sent' = Append(sent, <<"ls", DASH, "projects">>)
            /\ (Fails("SSHException") \/ Returns("lines"))
    /\ UNCHANGED <<cmd, option_str, posargs, query, max_results, opts,
                   results, site_version, connected, server, ghostVars,
                   last_len, last_page, pc, message, localVars, arg,
                   reviewVars, moreVars, parserVars>>

NextLife == SiteConnect \/ SiteDisconnect \/ SiteExecuteLine

SpecLife == InitLife /\ [][NextLife]_vars

(***************************************************************************)
(* Review (review.py): built from one decoded record.  A record is         *)
(* modelled by the fields the constructor reads: url, the patchSets list   *)
(* and currentPatchSet; a patch set by its number, a decimal string, and   *)
(* its revision.                                                           *)
(***************************************************************************)
\* int(s) for the decimal strings the records hold
ToInt(s) == CASE s = "1" -> 1 [] s = "2" -> 2 [] s = "3" -> 3 [] OTHER -> 0

Revisions == {"a", "b"}

\* entries of patchSets
ListedPatchsets ==
    [number : {"1", "2"}, revision : Revisions]

\* values of currentPatchSet; NoPatchset stands for a record without one
NoPatchset == [number |-> "0", revision |-> "none"]
CurrentPatchsets ==
    {NoPatchset} \cup [number : {"1", "2", "3"}, revision : {"c"}]

Records ==
    [has_url : BOOLEAN,
     patchSets : UNION {[1..n -> ListedPatchsets] : n \in 0..MaxPatchsets},
     currentPatchSet : CurrentPatchsets]

InitReview ==
    /\ NoCommand
    /\ NoParser
    /\ NoSiteCalls
    /\ site_version = <<0, 0, 0>>
    /\ review_raw \in Records
    /\ the_review = <<>>
    /\ NoMore

RECURSIVE Listed(_, _)
\* the dictionary after the loop over the first n entries of patchSets:
\* a later entry replaces an earlier one of the same number
Listed(patchSets, n) ==
    IF n = 0 THEN <<>>
    ELSE LET before == Listed(patchSets, n - 1)
             ps == patchSets[n]
         IN  [k \in DOMAIN before \cup {ToInt(ps.number)} |->
                 IF k = ToInt(ps.number) THEN ps ELSE before[k]]

\* self.__patchsets at the end of Review.__init__
Patchsets(record) ==
    LET listed == Listed(record.patchSets, Len(record.patchSets))
        cps == record.currentPatchSet
    IN  IF cps = NoPatchset THEN listed
        ELSE [k \in DOMAIN listed \cup {ToInt(cps.number)} |->
                 IF k = ToInt(cps.number) THEN cps ELSE listed[k]]

\* max(keys)
Max(keys) == CHOOSE k \in keys : \A j \in keys : j <= k

\* Review(raw): self.url fails without a url, max() fails on no key
NewReview(record) ==
    IF ~record.has_url
    THEN [exc |-> "AttributeError", patchsets |-> <<>>, highest |-> 0]
    ELSE IF DOMAIN Patchsets(record) = {}
    THEN [exc |-> "ValueError", patchsets |-> <<>>, highest |-> 0]
    ELSE [exc |-> "none", patchsets |-> Patchsets(record),
          highest |-> Max(DOMAIN Patchsets(record))]

\* Review.__init__
ReviewInit ==
    /\ the_review = <<>>
    /\ the_review' = NewReview(review_raw)
    /\ UNCHANGED <<coreVars, siteVars, moreVars, parserVars, review_raw>>

NextReview == ReviewInit

SpecReview == InitReview /\ [][NextReview]_vars

(***************************************************************************)
(* Properties of the command specification Spec.                           *)
(***************************************************************************)
FirstN(seq, n) == SubSeq(seq, 1, n)

\* the selection the caller's option string parses to
CallerSel == Parse(Options(cmd), option_str).sel

\* the site version is in the command's own range
CommandSupported == SpecMatch(site_version, SupportedVersions(cmd))

\* the ranged options the caller activated whose range excludes the site
UnsupportedActive ==
    {i \in 1..Len(Options(cmd)) :
        /\ Len(Options(cmd)[i].spec) > 0
        /\ Truthy(CallerSel[Options(cmd)[i].key])
        /\ ~SpecMatch(site_version, Options(cmd)[i].spec)}

\* the ranged options the caller left unset whose range excludes the site
UnsupportedUnset ==
    {i \in 1..Len(Options(cmd)) :
        /\ Len(Options(cmd)[i].spec) > 0
        /\ ~Truthy(CallerSel[Options(cmd)[i].key])
        /\ ~SpecMatch(site_version, Options(cmd)[i].spec)}

QueryDone == cmd = "Query" /\ pc = "done"

\* C1: a Query with maximum M > 0 returns at most M records, and when the
\* records accumulated from the pages exceed M it returns exactly the first
\* M of them.
C1_AtMostMax ==
    (QueryDone /\ max_results > 0) =>
        /\ Len(results) <= max_results
        /\ Len(served_data) > max_results =>
               results = FirstN(served_data, max_results)

\* C1 witness: a query ended with more records accumulated than asked for
C1_Overshoot ==
    /\ QueryDone
    /\ max_results > 0
    /\ Len(served_data) > max_results
    /\ Len(results) = max_results

\* the records the scripted server holds, in the order it serves them
StubRecords == [n \in 1..StubPages |-> RecLine(<<"s">> \o Str(n))]

\* C2: with maximum 0 a Query ends only on a page without data records and
\* returns every data record of every page in page and in-page order;
\* against the scripted server it returns exactly the StubPages (five)
\* records.
C2_Unlimited ==
    (QueryDone /\ max_results = 0) =>
        /\ last_len <= 1
        /\ results = served_data
        /\ server = "stub" =>
               Len(results) = StubPages /\ results = StubRecords

\* C2 witness: an unlimited query against the scripted server has ended
C2_StubDone ==
    /\ QueryDone
    /\ max_results = 0
    /\ server = "stub"
    /\ Len(sent) = StubPages + 1

C4_TrailingLine ==
    cmd = "Query" =>
        /\ pc = "done" =>
              /\ results = IF max_results > 0 /\ Len(served_data) > max_results
                           THEN FirstN(served_data, max_results)
                           ELSE served_data
              /\ \/ last_len <= 1
                 \/ max_results > 0 /\ Len(served_data) >= max_results
        /\ (Len(sent) > 0 /\ last_len <= 1
              /\ raised \notin {"SSHException", "ValueError"}) =>
              pc = "done" /\ results = result

\* C4 witness: a query ended on a one-line page after a page whose last
\* line was a review record, which is not among the results
C4_OddLastDropped ==
    /\ QueryDone
    /\ odd_last
    /\ last_len = 1
    /\ Len(results) > 0
    /\ Len(sent) > 1

\* the flags the Query docstring says are always sent
RequiredFlags ==
    { Long(<<"current", DASH, "patch", DASH, "set">>),
      Long(<<"patch", DASH, "sets">>),
      Long(<<"all", DASH, "approvals">>),
      Long(<<"dependencies">>),
      Long(<<"commit", DASH, "message">>) }

\* '--format JSON' is among the words
HasFormatJSON(words) ==
    \E i \in 1..(Len(words) - 1) :
        words[i] = Long(<<"format">>) /\ words[i + 1] = <<"JSON">>

ForcedKeys ==
    { <<"current", USCORE, "patch", USCORE, "set">>,
      <<"patch", USCORE, "sets">>,
      <<"all", USCORE, "approvals">>,
      <<"dependencies">>,
      <<"commit", USCORE, "message">>,
      <<"format">> }

\* some option that Query forces has a range that excludes the site version
ForcedUnsupported ==
    \E i \in 1..Len(QueryOptions) :
        /\ QueryOptions[i].key \in ForcedKeys
        /\ Len(QueryOptions[i].spec) > 0
        /\ ~SpecMatch(site_version, QueryOptions[i].spec)

C7_UnsupportedNeverSent ==
    (connected /\ pc # "idle"
       /\ (~CommandSupported \/ UnsupportedActive # {})) =>
        /\ pc = "raised"
        /\ raised = "NotImplementedError"
        /\ sent = <<>>

\* C7 witness: a Query with an activated unsupported option was rejected
C7_QueryOptionRejected ==
    /\ cmd = "Query"
    /\ connected
    /\ CommandSupported
    /\ UnsupportedActive # {}
    /\ raised = "NotImplementedError"

\* C8: with the command's range satisfied, the support check rejects the
\* selection exactly when some option that has a range and is set (true,
\* counted or non-empty) has a range excluding the site version: an unset,
\* false or empty option and an option without range are never rejected,
\* and the support check itself fails on no key.
C8_OnlySetOptionsChecked ==
    (connected /\ CommandSupported /\ pc # "idle") =>
        /\ (raised = "NotImplementedError"
              /\ message = "one or more options provided")
           <=> UnsupportedActive # {}
        /\ sent = <<>> => raised # "KeyError"

\* C8 witness: a command went out although an option given an empty value,
\* and options left unset, have ranges that exclude the site version
C8_UnsetPassed ==
    /\ connected
    /\ pc = "done"
    /\ sent # <<>>
    /\ Cardinality(UnsupportedUnset) > 1
    /\ \E i \in UnsupportedUnset : CallerSel[Options(cmd)[i].key].k = "str"

\* C9: on a connected site whose version is outside the command's range
\* the failure names the command, also when an activated option is
\* unsupported too; a failure naming the options is raised only with the
\* command's range satisfied.
C9_CommandScopeFirst ==
    (connected /\ pc # "idle") =>
        /\ ~CommandSupported =>
               raised = "NotImplementedError" /\ message = "this command"
        /\ message = "one or more options provided" => CommandSupported

\* C9 witness: command and an activated option are both unsupported, and the
\* failure names the command
C9_BothUnsupported ==
    /\ connected
    /\ ~CommandSupported
    /\ UnsupportedActive # {}
    /\ raised = "NotImplementedError"
    /\ message = "this command"

(***************************************************************************)
(* Properties of the parser specification SpecOpts.                        *)
(***************************************************************************)
\* the active keys of a selection with their values
ActiveOf(sel) ==
    {<<key, sel[key]>> : key \in {k \in DOMAIN sel : Truthy(sel[k])}}

\* C10: whenever an option string parsed into a selection S, with or without
\* the values a command forces, parsing str(S) against the same option set
\* succeeds and gives a selection with the same active keys and values as S.
C10_RoundTrip ==
    ppc \in {"reparsed", "rejected"} =>
        /\ ppc = "reparsed"
        /\ ActiveOf(reparsed) = ActiveOf(parsed)

\* the value of catalog entry i in parsed, None when the attribute is absent
ValueOf(i) ==
    IF OptionSetOf(option_set)[i].key \in DOMAIN parsed
    THEN parsed[OptionSetOf(option_set)[i].key]
    ELSE VNone

\* the long flag of catalog entry i
LongFlag(i) == OptionSetOf(option_set)[i].args[1]

\* what catalog entry i contributes to the rendering: nothing when false,
\* empty or absent, its long flag for an active flag, one 'long-flag value'
\* pair per value otherwise
Pairs(i) ==
    LET v == ValueOf(i)
    IN  IF v.k = "none" \/ v = VBool(FALSE) \/ v = VInt(0)
           \/ v = VStr(<<>>) \/ v = VList(<<>>)
        THEN <<>>
        ELSE IF OptionSetOf(option_set)[i].type = "flag" THEN <<LongFlag(i)>>
        ELSE IF v.k = "list"
        THEN [k \in 1..Len(v.l) |-> LongFlag(i) \o <<SP>> \o v.l[k]]
        ELSE <<LongFlag(i) \o <<SP>> \o v.s>>

RECURSIVE PairsUpTo(_)
\* the contributions of the catalog entries 1..i, in that order
PairsUpTo(i) == IF i = 0 THEN <<>> ELSE PairsUpTo(i - 1) \o Pairs(i)

InputWords == ShlexSplit(opt_str).toks

\* the string given to parse leaves a quote open
Unbalanced ==
    Cardinality({n \in 1..Len(opt_str) : opt_str[n] = QUOTE}) % 2 = 1

\* the word reads as an option, not as a value
Dashed(word) == Len(word) > 1 /\ word[1] = DASH /\ SP \notin Range(word)

\* every flag string the option set declares
FlagStrings ==
    UNION {Range(OptionSetOf(option_set)[i].args) :
              i \in 1..Len(OptionSetOf(option_set))}

\* the options a word names: those declaring it, or, for a word starting
\* with '--' that none declares, those with a flag string it is a prefix of
Named(word) ==
    LET catalog == OptionSetOf(option_set)
    IN  IF word \in FlagStrings
        THEN {i \in 1..Len(catalog) : word \in Range(catalog[i].args)}
        ELSE {i \in 1..Len(catalog) :
                 /\ IsPrefix(<<DASH, DASH>>, word)
                 /\ \E a \in Range(catalog[i].args) : IsPrefix(word, a)}

\* the word names exactly one option, and that option takes a value
NamesValued(word) ==
    /\ Dashed(word)
    /\ Cardinality(Named(word)) = 1
    /\ \A i \in Named(word) : OptionSetOf(option_set)[i].type # "flag"

\* word n of the input makes the string malformed: a flag that names no
\* option or more than one, an option without its value, a value outside an
\* option's choices, or a value no option asks for
BadWord(words, n) ==
    LET w == words[n]
        catalog == OptionSetOf(option_set)
    IN  IF Dashed(w)
        THEN \/ Cardinality(Named(w)) # 1
             \/ /\ NamesValued(w)
                /\ \/ n = Len(words)
                   \/ Dashed(words[n + 1])
                   \/ \E i \in Named(w) :
                          /\ catalog[i].has_choices
                          /\ words[n + 1] \notin catalog[i].choices
        ELSE ~(n > 1 /\ NamesValued(words[n - 1]))

C13_ForeignKeyRejected ==
    ppc \notin {"none", "new"} =>
        DOMAIN parsed \subseteq Keys(OptionSetOf(option_set))

\* C14: the keys of a catalog are unique: no OptionSet a parser was built
\* from and has parsed with holds two options of the same key
C14_UniqueKeys ==
    ppc \in {"parsed", "rendered", "reparsed"} =>
        LET catalog == OptionSetOf(option_set)
        IN  \A i, j \in 1..Len(catalog) :
                catalog[i].key = catalog[j].key => i = j

(***************************************************************************)
(* Properties of support evaluation, checked under SpecRange               *)
(***************************************************************************)
\* C15: an ill-formed range string is refused when the option or the
\* catalog is built, so neither supported_in nor options_supported_in ever
\* fails because of a range string
C15_RangeNeverFails ==
    is_supported # "ValueError" /\ subset.exc # "ValueError"

\* a version as one number
Num(v) == v[1] * 10000 + v[2] * 100 + v[3]

Holds(v, t) ==
    CASE t.op = ">=" -> Num(v) >= Num(t.v)
      [] t.op = "<"  -> Num(v) < Num(t.v)
      [] t.op = "<=" -> Num(v) <= Num(t.v)
      [] t.op = ">"  -> Num(v) > Num(t.v)
      [] OTHER       -> Num(v) = Num(t.v)

Satisfies(v, spec) == \A i \in 1..Len(spec) : Holds(v, spec[i])

\* the catalog positions of the options the site version supports
SupportedPositions ==
    LET catalog == OptionSetOf(option_set)
    IN  {i \in 1..Len(catalog) : Satisfies(site_version, catalog[i].spec)}

\* the k-th smallest of a set of positions
Kth(positions, k) ==
    CHOOSE i \in positions : Cardinality({j \in positions : j < i}) = k - 1

\* C16: a version is in a range iff it satisfies every term of it, the
\* empty range holding for every version; options_supported_in gives, in
\* catalog order, exactly the options with no range or a satisfied one
C16_RangeConjunction ==
    /\ SpecMatch(<<2, 7, 0>>, GE(2, 6) \o LT(2, 9))
    /\ ~SpecMatch(<<2, 9, 0>>, GE(2, 6) \o LT(2, 9))
    /\ SpecMatch(site_version, NoSpec)
    /\ subset.exc = "none" =>
           LET catalog == OptionSetOf(option_set)
           IN  /\ Len(subset.options) = Cardinality(SupportedPositions)
               /\ \A k \in 1..Len(subset.options) :
                      subset.options[k] = catalog[Kth(SupportedPositions, k)]
    /\ is_supported \in {"True", "False"} =>
           LET catalog == OptionSetOf(option_set)
           IN  is_supported = "True" <=>
                   \A i \in 1..Len(catalog) :
                       Truthy(parsed[catalog[i].key]) =>
                           Satisfies(site_version, catalog[i].spec)

\* the fixture at 4.0.0: valued (>=1.0,<3.0) is left out, the rest is kept
C16_FixtureSubset ==
    /\ option_set = "fixture"
    /\ site_version = <<4, 0, 0>>
    /\ subset.exc = "none"
    /\ [k \in 1..Len(subset.options) |-> subset.options[k].key]
           = << <<"flag">>, <<"pick">>, <<"repeatable">> >>

(***************************************************************************)
(* Failures while paging, checked under Spec                               *)
(***************************************************************************)
\* C17: a transport failure on a page request, the first or a later one,
\* leaves execute_on as that exception: _results keeps the value it had
\* before the call, whatever the loop had collected, and once the exception
\* is raised no further request is made and nothing else changes
C17_TransportFailureAborts ==
    [][ /\ (cmd = "Query" /\ raised' = "SSHException"
               /\ raised # "SSHException") =>
              /\ pc = "paging" /\ pc' = "raised"
              /\ results' = results
              /\ results' = <<>>
              /\ Len(sent') = Len(sent) + 1
        /\ raised = "SSHException" => UNCHANGED vars ]_vars

\* the failure strikes the third request, after two pages were collected
C17_FailureOnLaterPage ==
    /\ raised = "SSHException"
    /\ pc = "raised"
    /\ Len(sent) = 3
    /\ Len(result) = 2
    /\ results = <<>>

\* the page of the last turn of the loop, when one was taken and the
\* request itself did not fail
PageDecoded ==
    cmd = "Query" /\ Len(sent) > 0 /\ raised # "SSHException"

\* the lines of the page before its last one
DataRecords == SubSeq(last_page, 1, Len(last_page) - 1)

NotJSON == \E i \in 1..Len(last_page) : last_page[i].kind = "garbage"

NotAReview == \E i \in 1..Len(DataRecords) : DataRecords[i].kind # "review"

LastLacksKey ==
    Len(DataRecords) > 0 /\ ~DataRecords[Len(DataRecords)].has_key

SomeLacksKey == \E i \in 1..Len(DataRecords) : ~DataRecords[i].has_key

C19_BanCommitArguments ==
    (cmd = "BanCommit" /\ pc # "new" /\ Parse(Options(cmd), option_str).ok)
    => IF posargs[1] = <<>> \/ posargs[2] = <<>>
       THEN pc = "raised" /\ raised = "ValueError" /\ sent = <<>>
       ELSE /\ raised # "TypeError"
            /\ pc = "done" =>
                   /\ sent = << Strip(Join(<< <<"ban", DASH, "commit">>,
                                              OptStr(opts, Options(cmd)),
                                              posargs[1], posargs[2] >>)) >>
                   /\ results = <<>>

(***************************************************************************)
(* Properties of Site.execute, checked under SpecSite                      *)
(***************************************************************************)
\* cmd is None, an empty string, or neither a string nor a SiteCommand
NoValidCommand ==
    \/ arg = VNone
    \/ arg = VStr(<<>>)
    \/ arg.k \notin {"str", "SiteCommand"}

\* C20: execute on a site that is not connected raises SSHConnectionError
\* whatever cmd is; on a connected site a cmd that is None, an empty string
\* or neither a string nor a SiteCommand raises InvalidCommandError; in
\* both cases nothing is sent over SSH
C20_ExecuteRejects ==
    pc # "call" =>
        /\ ~connected =>
               pc = "raised" /\ raised = "SSHConnectionError" /\ sent = <<>>
        /\ (connected /\ NoValidCommand) =>
               pc = "raised" /\ raised = "InvalidCommandError" /\ sent = <<>>

\* execute(1) on a site that is not connected
C20_NonStringOnUnconnected ==
    /\ ~connected
    /\ arg = VInt(1)
    /\ raised = "SSHConnectionError"
    /\ sent = <<>>

(***************************************************************************)
(* Properties of the life of a Site, checked under SpecLife                *)
(***************************************************************************)
\* C21: a connect that succeeds returns the Site itself, also on a site
\* that is connected already, where it sends nothing and leaves connected
\* and version alone; a connect the SSH layer fails raises
\* SSHConnectionError and leaves version 0.0.0
C21_ConnectReturnsSelf ==
    last_call = "connect" =>
        /\ raised = "none" => (returned = "self" /\ connected)
        /\ raised = "SSHConnectionError" => site_version = <<0, 0, 0>>

\* C22: disconnect never raises, and the site is not connected after it
C22_DisconnectNeverRaises ==
    last_call = "disconnect" => raised = "none" /\ ~connected

(***************************************************************************)
(* Properties of Review, checked under SpecReview                          *)
(***************************************************************************)
\* the patch set numbers a record holds
NumbersOf(record) ==
    {ToInt(record.patchSets[i].number) : i \in 1..Len(record.patchSets)}
        \cup (IF record.currentPatchSet = NoPatchset THEN {}
              ELSE {ToInt(record.currentPatchSet.number)})

\* C23: a record with a url and zero or more patch sets gives a Review;
\* its patchsets are keyed by the integer patch set numbers of the record,
\* currentPatchSet standing for its number, highest_patchset_number is the
\* largest key and highest_patchset the patch set of that number
C23_ReviewPatchsets ==
    (the_review # <<>> /\ review_raw.has_url) =>
        /\ the_review.exc = "none"
        /\ DOMAIN the_review.patchsets = NumbersOf(review_raw)
        /\ \A k \in DOMAIN the_review.patchsets :
               /\ ToInt(the_review.patchsets[k].number) = k
               /\ (review_raw.currentPatchSet # NoPatchset
                     /\ ToInt(review_raw.currentPatchSet.number) = k)
                  => the_review.patchsets[k] = review_raw.currentPatchSet
        /\ NumbersOf(review_raw) # {} =>
               /\ the_review.highest \in DOMAIN the_review.patchsets
               /\ \A k \in DOMAIN the_review.patchsets : k <= the_review.highest

(***************************************************************************)
(* The page commands of a query, checked under Spec                        *)
(***************************************************************************)
\* the command line holds a 'limit:' term
HasLimit(line) == \E i \in 1..Len(line) : line[i] = "limit:"

\* the number after 'limit:'
LimitOf(line) ==
    LET i == CHOOSE j \in 1..Len(line) : line[j] = "limit:"
    IN  CHOOSE n \in 0..9 : Str(n) = <<line[i + 1]>>

\* a step of a query that sends a page command
SendsPage == cmd = "Query" /\ Len(sent') = Len(sent) + 1

\* the page command such a step sends
NewCommand == sent'[Len(sent')]

\* C24: a page command holds 'limit:N' exactly when a maximum M > 0 was
\* asked for, and then N is M less the records collected before that page,
\* at least 1 and at most M
C24_LimitIsRemainder ==
    [][ SendsPage =>
          /\ HasLimit(NewCommand) <=> max_results > 0
          /\ max_results > 0 =>
                 /\ LimitOf(NewCommand) = max_results - Len(result)
                 /\ LimitOf(NewCommand) >= 1
                 /\ LimitOf(NewCommand) <= max_results ]_vars

\* a second page asked for with limit 1 after two of three records came
C24_SecondPageLimit ==
    /\ cmd = "Query"
    /\ max_results = 3
    /\ Len(sent) >= 2
    /\ HasLimit(sent[2])
    /\ LimitOf(sent[2]) = 1

\* the command line holds a 'resume_sortkey:' term
HasResume(line) == \E i \in 1..Len(line) : line[i] = "resume_sortkey:"

\* the cursor of a page command: the text after 'resume_sortkey:', the
\* empty text when the command has no such term
CursorOf(line) ==
    IF HasResume(line)
    THEN LET i == CHOOSE j \in 1..Len(line) : line[j] = "resume_sortkey:"
         IN  SubSeq(line, i + 1, Len(line))
    ELSE <<>>

\* the sortKey of the last data record of a page
LastKey(page) == AllButLast(page)[Len(page) - 1].sortKey

C25_CursorIsLastKey ==
    [][ SendsPage =>
          IF Len(sent) = 0
          THEN ~HasResume(NewCommand)
          ELSE /\ CursorOf(NewCommand) = LastKey(last_page)
               /\ HasResume(NewCommand) <=> LastKey(last_page) # <<>> ]_vars

(***************************************************************************)
(* The paging loop as a running call: once execute_on has entered the      *)
(* loop, the thread that runs it takes the next turn.  The server sends a  *)
(* page that ends the result set after MaxPages (StubPages for the         *)
(* scripted server) pages at the latest.                                   *)
(***************************************************************************)
InitTerm ==
    /\ \E pa \in PosArgs("Query") : Constructed("Query", <<>>, pa)
    /\ site_version = <<2, 9, 0>>
    /\ connected = TRUE
    /\ server \in {"lean", "stub"}
    /\ query \in Queries
    /\ max_results \in 0..MaxResults
    /\ NoParser
    /\ NoExecuteCall
    /\ Quiet

\* one turn of the loop, answered or failed
LoopTurn == QueryPage \/ QueryTransportFailure

NextTerm == QueryExecuteOn \/ QueryPage \/ QueryTransportFailure

SpecTerm == InitTerm /\ [][NextTerm]_vars /\ WF_vars(LoopTurn)

\* C26: execute_on terminates: with a maximum M > 0 it sends at most M page
\* commands whatever the server returns; with maximum 0 the loop goes on
\* only while no request has failed and the latest page had more than one
\* line; and the loop always ends when the server sends a page of at most
\* one line at some time
C26_Terminates ==
    /\ [](max_results > 0 => Len(sent) <= max_results)
    /\ []((max_results = 0 /\ pc = "paging") =>
            (raised = "none" /\ (Len(sent) = 0 \/ last_len > 1)))
    /\ (pc = "paging" ~> pc # "paging")

\* an unlimited query that ended on the terminator after MaxPages pages of
\* data
C26_UnlimitedEnded ==
    /\ max_results = 0
    /\ server = "lean"
    /\ pc = "done"
    /\ Len(sent) = MaxPages + 1
    /\ last_len <= 1

(***************************************************************************)
(* One Query executed twice on the same site, the scripted server sending  *)
(* the same pages both times.                                              *)
(***************************************************************************)
InitTwice ==
    /\ InitCompat
    /\ cmd = "Query"
    /\ NoParser
    /\ NoExecuteCall
    /\ NoSiteCalls
    /\ NoReview
    /\ first = <<>>
    /\ NoCatalog
    /\ NoThreads

\* the first call has ended and execute_on is called again: the object
\* keeps its attributes, the site records the commands of the new call and
\* the server starts over
ExecuteAgain ==
    /\ pc \in {"done", "raised"}
    /\ first = <<>>
    /\ first' = [raised |-> raised, sent |-> sent, results |-> results]
    /\ pc' = "idle"
    /\ raised' = "none"
    /\ message' = "none"
    /\ sent' = <<>>
    /\ served_data' = <<>>
    /\ odd_last' = FALSE
    /\ last_len' = 0
    /\ last_page' = <<>>
    /\ UNCHANGED <<cmd, option_str, posargs, query, max_results, opts, results,
                   site_version, connected, server, localVars, arg, siteVars,
                   reviewVars, shared_options, threadVars, parserVars>>

NextTwice == QueryExecuteOn \/ QueryPage \/ ExecuteAgain

SpecTwice == InitTwice /\ [][NextTwice]_vars

C27_SameOnNewerSites ==
    (first # <<>> /\ pc \in {"done", "raised"} /\
     site_version \notin {<<2, 0, 0>>, <<2, 4, 7>>}) =>
        /\ raised = first.raised
        /\ sent = first.sent
        /\ raised = "none" => results = first.results

(***************************************************************************)
(* A Selection with an option deleted, then rendered or asked about a      *)
(* version.                                                                *)
(***************************************************************************)
NextDel == ParseOptStr \/ DelOption \/ StrOfParsed \/ SupportedInCall

SpecDel == InitRange /\ [][NextDel]_vars

\* the Selection with every deleted option of the catalog back at the value
\* of an option absent from the text
AsAbsent(sel, catalog) ==
    [key \in DOMAIN sel \cup Keys(catalog) |->
        IF key \in DOMAIN sel THEN sel[key] ELSE Defaults(catalog)[key]]

\* an option of the catalog has been deleted from the Selection
Deleted == Keys(OptionSetOf(option_set)) \ DOMAIN parsed # {}

\* the Selection records every option of the catalog, and the ones of an
\* empty text at the value of an absent option
AbsentRecorded ==
    (ppc = "parsed" /\ edits = 0) =>
        /\ Keys(OptionSetOf(option_set)) \subseteq DOMAIN parsed
        /\ opt_str = <<>> => parsed = Defaults(OptionSetOf(option_set))

\* str() of a Selection with a deleted option is str() of the Selection
\* with that option absent
DeletedOmitted ==
    (ppc = "rendered" /\ Deleted) =>
        rendered = OptStr(AsAbsent(parsed, OptionSetOf(option_set)),
                          OptionSetOf(option_set))

\* C28: an option absent from the parsed text is recorded in the Selection
\* under its key (false for a flag, none otherwise); an option deleted
\* afterwards is treated as absent: str() omits it, and supported_in gives
\* what it gives with the option absent
C28_DeletedIsAbsent ==
    /\ AbsentRecorded
    /\ DeletedOmitted
    /\ (is_supported # "unset" /\ Deleted) =>
           is_supported = SupportedIn(AsAbsent(parsed, OptionSetOf(option_set)),
                                      OptionSetOf(option_set), site_version)

\* the parts of C28 that hold: absent options are recorded, and str() omits
\* a deleted option
C28_RecordedAndOmitted == AbsentRecorded /\ DeletedOmitted

(***************************************************************************)
(* One OptionSet object shared by two Selections: a parser is built on it, *)
(* a text is parsed, the Selection is forced, edited and rendered as a     *)
(* command does, and the same text is parsed again.                        *)
(***************************************************************************)
InitShared ==
    /\ NoCommand
    /\ NoSiteCalls
    /\ NoReview
    /\ NoSecondCall
    /\ NoThreads
    /\ site_version = <<0, 0, 0>>
    /\ option_set \in OptionSets
    /\ shared_options = OptionSetOf(option_set)
    /\ opt_str \in OptionStrings(option_set)
    /\ parsed = <<>>
    /\ forced = FALSE
    /\ rendered = <<>>
    /\ reparsed = <<>>
    /\ ppc = "new"
    /\ parse_exc = "none"
    /\ parser_results = "None"
    /\ edits = 0
    /\ is_supported = "unset"
    /\ subset = [exc |-> "unset", options |-> <<>>]

\* what no method of the parser or of the Selection touches
sharedFrame == <<coreVars, siteVars, reviewVars, first, threadVars, rangeVars,
                 option_set, opt_str>>

\* CmdOptionParser(option_set).parse(opt_str): the first Selection
SharedParse ==
    /\ ppc = "new"
    /\ LET r == Parse(shared_options, opt_str)
       IN  /\ parse_exc' = r.exc
           /\ IF r.ok
              THEN parsed' = r.sel /\ ppc' = "parsed"
                   /\ parser_results' = "parsed"
              ELSE parsed' = parsed /\ ppc' = "exit"
                   /\ parser_results' = parser_results
    /\ UNCHANGED <<sharedFrame, shared_options, forced, rendered, reparsed,
                   edits>>

\* forcing that also drops the version ranges of the shared option set
SharedForceDropsRanges ==
    /\ ppc = "parsed"
    /\ option_set = "Query"
    /\ ~forced
    /\ parsed' = Forced(parsed)
    /\ forced' = TRUE
    /\ shared_options' =
           [i \in DOMAIN shared_options |->
               [shared_options[i] EXCEPT !.spec = <<>>]]
    /\ UNCHANGED <<sharedFrame, rendered, reparsed, ppc, parse_exc,
                   parser_results, edits>>

\* the assignments of Query.execute_on, made on the first Selection
SharedForce ==
    /\ ppc = "parsed"
    /\ option_set = "Query"
    /\ ~forced
    /\ parsed' = Forced(parsed)
    /\ forced' = TRUE
    /\ UNCHANGED <<sharedFrame, shared_options, rendered, reparsed, ppc,
                   parse_exc, parser_results, edits>>

\* opts.key = value or del opts.key on the first Selection
SharedEdit ==
    /\ ppc = "parsed"
    /\ edits < MaxEdits
    /\ \E key \in EditKeys(shared_options) :
          \/ \E value \in EditValues : parsed' = SetAttr(parsed, key, value)
          \/ /\ key \in DOMAIN parsed
             /\ parsed' = [k \in DOMAIN parsed \ {key} |-> parsed[k]]
    /\ edits' = edits + 1
    /\ UNCHANGED <<sharedFrame, shared_options, forced, rendered, reparsed, ppc,
                   parse_exc, parser_results>>

\* str(opts), as execute_on renders the Selection into its command
SharedStr ==
    /\ ppc = "parsed"
    /\ rendered' = OptStr(parsed, shared_options)
    /\ ppc' = "rendered"
    /\ UNCHANGED <<sharedFrame, shared_options, parsed, forced, reparsed,
                   parse_exc, parser_results, edits>>

\* CmdOptionParser(option_set).parse(opt_str) once more: the second
\* Selection
SharedParseAgain ==
    /\ ppc = "rendered"
    /\ LET r == Parse(shared_options, opt_str)
       IN  /\ parse_exc' = r.exc
           /\ reparsed' = r.sel
           /\ ppc' = "reparsed"
           /\ parser_results' = "reparsed"
    /\ UNCHANGED <<sharedFrame, shared_options, parsed, forced, rendered,
                   edits>>

NextShared ==
    \/ SharedParse
    \/ SharedForce
    \/ SharedEdit
    \/ SharedStr
    \/ SharedParseAgain

SpecShared == InitShared /\ [][NextShared]_vars

Threads == 1..MaxThreads

InitThreads ==
    /\ NoCommand
    /\ NoParser
    /\ NoSiteCalls
    /\ NoReview
    /\ NoSecondCall
    /\ NoCatalog
    /\ site_version = <<0, 0, 0>>
    /\ tpc = [t \in Threads |-> "idle"]
    /\ lock = 0
    /\ established = 0
    /\ tcalls = [t \in Threads |-> 0]

\* what no statement of the client touches
threadFrame == <<cmd, option_str, posargs, query, max_results, opts, results,
                 site_version, server, sent, served_data, odd_last, last_len,
                 last_page, pc, raised, message, localVars, arg, siteVars,
                 reviewVars, first, shared_options, parserVars>>

\* thread t goes on at statement at
Goto(t, at) == tpc' = [tpc EXCEPT ![t] = at]

\* the call of thread t ends, by return or by exception
Leave(t) == Goto(t, "idle")

\* a caller enters execute or disconnect
Call(t) ==
    /\ tpc[t] = "idle"
    /\ tcalls[t] < MaxThreadCalls
    /\ tcalls' = [tcalls EXCEPT ![t] = @ + 1]
    /\ (Goto(t, "check") \/ Goto(t, "closing"))
    /\ UNCHANGED <<connected, lock, established, threadFrame>>

\* _connect: if not self.connected
Check(t) ==
    /\ tpc[t] = "check"
    /\ IF connected THEN Goto(t, "exec") ELSE Goto(t, "acquire")
    /\ UNCHANGED <<connected, lock, established, tcalls, threadFrame>>

\* self.lock.acquire(), in _connect and in disconnect
Acquire(t) ==
    /\ tpc[t] \in {"acquire", "closing"}
    /\ lock = 0
    /\ lock' = t
    /\ IF tpc[t] = "acquire" THEN Goto(t, "recheck") ELSE Goto(t, "test")
    /\ UNCHANGED <<connected, established, tcalls, threadFrame>>

\* _connect connecting without a second look at self.connected
RecheckSkipped(t) ==
    /\ tpc[t] = "recheck"
    /\ Goto(t, "connect")
    /\ UNCHANGED <<connected, lock, established, tcalls, threadFrame>>

\* _connect: if not self.connected, now holding the lock
Recheck(t) ==
    /\ tpc[t] = "recheck"
    /\ IF connected THEN Goto(t, "release") ELSE Goto(t, "connect")
    /\ UNCHANGED <<connected, lock, established, tcalls, threadFrame>>

\* self._do_connect(): returns, or raises SSHException
DoConnect(t) ==
    /\ tpc[t] = "connect"
    /\ \/ established' = established + 1 /\ Goto(t, "set")
       \/ established' = established /\ Goto(t, "failed")
    /\ UNCHANGED <<connected, lock, tcalls, threadFrame>>

\* self.__connected.set()
SetConnected(t) ==
    /\ tpc[t] = "set"
    /\ connected' = TRUE
    /\ Goto(t, "release")
    /\ UNCHANGED <<lock, established, tcalls, threadFrame>>

\* finally: self.lock.release(); _connect returns to execute, or the
\* exception of _do_connect or of disconnect goes on to the caller
Release(t) ==
    /\ tpc[t] \in {"release", "failed", "typeerror"}
    /\ lock' = 0
    /\ IF tpc[t] = "release" THEN Goto(t, "exec") ELSE Leave(t)
    /\ UNCHANGED <<connected, established, tcalls, threadFrame>>

\* self.exec_command(...): returns or raises SSHException
ExecCommand(t) ==
    /\ tpc[t] = "exec"
    /\ Leave(t)
    /\ UNCHANGED <<connected, lock, established, tcalls, threadFrame>>

\* disconnect: 'if self.connected():' calls a bool and raises TypeError
TestConnected(t) ==
    /\ tpc[t] = "test"
    /\ Goto(t, "typeerror")
    /\ UNCHANGED <<connected, lock, established, tcalls, threadFrame>>

\* a statement of thread t inside a call
InCall(t) ==
    \/ Check(t)
    \/ Acquire(t)
    \/ Recheck(t)
    \/ DoConnect(t)
    \/ SetConnected(t)
    \/ Release(t)
    \/ ExecCommand(t)
    \/ TestConnected(t)

NextThreads == \E t \in Threads : Call(t) \/ InCall(t)

\* a thread inside a call runs on
SpecThreads ==
    /\ InitThreads
    /\ [][NextThreads]_vars
    /\ \A t \in Threads : WF_vars(InCall(t))

\* the statements a thread runs while it holds the lock
Holding == {"recheck", "connect", "set", "release", "failed", "test",
            "typeerror"}

\* C30: with several threads on one client _do_connect returns at most once,
\* and never runs while the client is connected; the lock is held by a
\* thread only between its acquire and its release, whether connecting or
\* disconnecting failed or not; a lock that is held is released, and a
\* thread that waits for it gets it
C30_ConnectOnceLockFreed ==
    /\ [](established <= 1)
    /\ [](\A t \in Threads : connected => tpc[t] # "connect")
    /\ [](\A t \in Threads : (lock = t) <=> (tpc[t] \in Holding))
    /\ (lock # 0 ~> lock = 0)
    /\ \A t \in Threads :
           (tpc[t] \in {"acquire", "closing"}) ~> (lock = t)

\* two threads found the client unconnected; one has connected it and the
\* other one, which waited for the lock, finds it connected
C30_SecondThreadFindsConnected ==
    \E t \in Threads :
        /\ tpc[t] = "recheck"
        /\ connected
        /\ established = 1

====
